---------------------------- MODULE Spec2Model ----------------------------
(***************************************************************************)
(* Record linkage of OCR-extracted bond rows against a trusted workbook:   *)
(* the identifier codec, the confusion table, the similarity scorers and   *)
(* the multi-phase matchers of populate_excel_v3.py, populate_excel_v4.py, *)
(* build_matching_v3.py and test_correct_matching.py.                      *)
(*                                                                         *)
(* A character is a one-character string; a Python str is a sequence of    *)
(* characters.  Python's 0-based s[i] is s[i+1] here.                      *)
(***************************************************************************)
EXTENDS Integers, Sequences, FiniteSets, TLC

VARIABLES
    prog,         \* which script runs: "v3", "v4", "bm" (build_matching_v3), "tcm" (test_correct_matching)
    OCR_PAIRS,    \* the module-level confusion table of that script
    pc,           \* position in main
    workbook,     \* rows of the trusted workbook: [bb_id, issuer, amt]
    csv_file,     \* rows of the OCR csv: [nfields, cusip, state, issuer, amt_raw, bics]
    excel_rows,   \* loaded entities: [bb_id, correct_cusip, issuer, amt]
    csv_all,      \* loaded candidates: [line, cusip, issuer, amt_raw, parsed]
    matched,      \* dict excel_idx -> csv_idx, as a set of <<ei, ci>>
    matched_csv,  \* set of used csv_idx
    todo,         \* the list (sorted pairs, csv rows) the current loop still has to visit
    grp,          \* populate_excel_v4.py stage 2: position in sorted_groups
    scored,       \* the <<ei, ci>> on which the identifier scorer has been called
    out_ws,       \* the data rows of the output sheet, one record of cells per row
    deduped,      \* smart_dedup_test.py: the rows kept so far
    argA, argB,   \* arguments of a scorer or codec call under test
    nedit,        \* edits applied to the arguments so far
    ret           \* the last call and its result

vars == <<prog, OCR_PAIRS, pc, workbook, csv_file, excel_rows, csv_all,
          matched, matched_csv, todo, grp, scored, out_ws, deduped, argA, argB, nedit, ret>>

matcherVars == <<pc, workbook, csv_file, excel_rows, csv_all, matched, matched_csv, todo, grp,
                 scored, out_ws, deduped>>

callVars == <<argA, argB, nedit, ret>>

(***************************************************************************)
(* Characters: str.isdigit, str.isalpha, str.upper, str.lower, ord on the  *)
(* ASCII range the inputs are drawn from.                                  *)
(***************************************************************************)
DigitChars == <<"0","1","2","3","4","5","6","7","8","9">>

UpperChars == <<"A","B","C","D","E","F","G","H","I","J","K","L","M",
                "N","O","P","Q","R","S","T","U","V","W","X","Y","Z">>

LowerChars == <<"a","b","c","d","e","f","g","h","i","j","k","l","m",
                "n","o","p","q","r","s","t","u","v","w","x","y","z">>

Range(s) == {s[i] : i \in 1..Len(s)}

IndexOf(s, x) == CHOOSE i \in 1..Len(s) : s[i] = x

isdigit(ch) == ch \in Range(DigitChars)

isalpha(ch) == ch \in Range(UpperChars) \cup Range(LowerChars)

isspace(ch) == ch = " "

upper(ch) == IF ch \in Range(LowerChars) THEN UpperChars[IndexOf(LowerChars, ch)] ELSE ch

lower(ch) == IF ch \in Range(UpperChars) THEN LowerChars[IndexOf(UpperChars, ch)] ELSE ch

\* int(ch) for a decimal digit character
DigitValue(ch) == IndexOf(DigitChars, ch) - 1

\* str(d) for d in 0..9
DigitStr(d) == DigitChars[d + 1]

\* ord(ch) - ord('A') for an upper-case letter
OrdFromA(ch) == IndexOf(UpperChars, ch) - 1

(***************************************************************************)
(* Strings: slices, strip, rstrip('.'), case mapping.                      *)
(***************************************************************************)
Min(a, b) == IF a <= b THEN a ELSE b

Max(a, b) == IF a >= b THEN a ELSE b

\* s[:n]
Take(s, n) == SubSeq(s, 1, Min(n, Len(s)))

\* s[n:]
Drop(s, n) == SubSeq(s, Min(n, Len(s)) + 1, Len(s))

Upper(s) == [i \in 1..Len(s) |-> upper(s[i])]

Lower(s) == [i \in 1..Len(s) |-> lower(s[i])]

RECURSIVE LStrip(_)
LStrip(s) == IF s # <<>> /\ isspace(Head(s)) THEN LStrip(Tail(s)) ELSE s

RECURSIVE RStrip(_)
RStrip(s) == IF s # <<>> /\ isspace(s[Len(s)]) THEN RStrip(SubSeq(s, 1, Len(s) - 1)) ELSE s

Strip(s) == RStrip(LStrip(s))

RECURSIVE RStripDots(_)
RStripDots(s) == IF s # <<>> /\ s[Len(s)] = "." THEN RStripDots(SubSeq(s, 1, Len(s) - 1)) ELSE s

\* s.startswith(p)
StartsWith(s, p) == Len(s) >= Len(p) /\ SubSeq(s, 1, Len(p)) = p

(***************************************************************************)
(* Confusion model: the three tables of the sources.                       *)
(***************************************************************************)
\* populate_excel_v3.py, populate_excel_v4.py
pairs_v4 == {
    <<"0","X">>, <<"0","O">>, <<"0","D">>, <<"0","Q">>,
    <<"1","I">>, <<"1","L">>, <<"1","7">>, <<"1","J">>,
    <<"3","2">>, <<"3","8">>, <<"3","5">>,
    <<"4","8">>, <<"4","A">>, <<"4","9">>,
    <<"5","S">>, <<"5","F">>, <<"5","6">>, <<"5","3">>,
    <<"6","G">>, <<"6","8">>, <<"6","A">>, <<"6","5">>,
    <<"7","T">>, <<"7","1">>,
    <<"8","B">>, <<"8","6">>, <<"8","3">>,
    <<"9","G">>, <<"9","Q">>, <<"9","4">>,
    <<"A","4">>, <<"A","6">>,
    <<"D","K">>, <<"D","H">>, <<"D","0">>,
    <<"E","F">>, <<"E","C">>,
    <<"F","5">>, <<"F","P">>,
    <<"G","6">>, <<"G","9">>, <<"G","C">>,
    <<"H","K">>, <<"H","D">>, <<"H","N">>,
    <<"J","1">>, <<"J","U">>,
    <<"K","X">>, <<"K","H">>, <<"K","D">>,
    <<"L","1">>, <<"L","I">>,
    <<"M","N">>, <<"M","W">>, <<"M","H">>,
    <<"N","M">>, <<"N","H">>,
    <<"O","0">>, <<"O","Q">>, <<"O","D">>,
    <<"P","R">>, <<"P","F">>,
    <<"Q","9">>, <<"Q","0">>, <<"Q","G">>,
    <<"R","P">>,
    <<"S","5">>,
    <<"T","7">>,
    <<"U","V">>, <<"U","J">>,
    <<"V","U">>, <<"V","W">>,
    <<"W","M">>, <<"W","V">>, <<"W","A">>,
    <<"X","K">>, <<"X","0">>,
    <<"Y","V">>,
    <<"Z","2">>}

\* build_matching_v3.py
pairs_bm == {
    <<"0","X">>, <<"0","O">>, <<"0","D">>,
    <<"1","I">>, <<"1","L">>, <<"1","7">>,
    <<"3","2">>, <<"3","8">>,
    <<"4","8">>, <<"4","A">>,
    <<"5","S">>, <<"5","F">>, <<"5","6">>,
    <<"6","G">>, <<"6","8">>,
    <<"7","T">>,
    <<"8","B">>,
    <<"9","G">>, <<"9","Q">>,
    <<"D","K">>, <<"D","H">>,
    <<"E","F">>,
    <<"K","H">>, <<"K","X">>,
    <<"M","N">>, <<"M","W">>,
    <<"P","R">>,
    <<"U","V">>, <<"W","V">>}

\* a plausible slip: "for a, b in _pairs: OCR_PAIRS.add((a, b))" alone
AddBoth_oneway(ps) == ps

\* "for a, b in _pairs: OCR_PAIRS.add((a, b)); OCR_PAIRS.add((b, a))"
AddBoth(ps) == ps \cup {<<p[2], p[1]>> : p \in ps}

OCR_PAIRS_v4 == AddBoth(pairs_v4)

OCR_PAIRS_bm == AddBoth(pairs_bm)

\* test_correct_matching.py: a set literal that lists both directions
OCR_PAIRS_tcm == {
    <<"0","X">>, <<"X","0">>, <<"0","O">>, <<"O","0">>, <<"0","D">>, <<"D","0">>,
    <<"1","I">>, <<"I","1">>, <<"1","L">>, <<"L","1">>, <<"1","7">>, <<"7","1">>,
    <<"3","2">>, <<"2","3">>, <<"3","8">>, <<"8","3">>,
    <<"4","8">>, <<"8","4">>, <<"4","A">>, <<"A","4">>,
    <<"5","S">>, <<"S","5">>, <<"5","F">>, <<"F","5">>, <<"5","6">>, <<"6","5">>,
    <<"6","G">>, <<"G","6">>, <<"6","8">>, <<"8","6">>,
    <<"7","T">>, <<"T","7">>,
    <<"8","B">>, <<"B","8">>,
    <<"9","G">>, <<"G","9">>, <<"9","Q">>, <<"Q","9">>,
    <<"D","K">>, <<"K","D">>, <<"D","H">>, <<"H","D">>,
    <<"E","F">>, <<"F","E">>,
    <<"K","H">>, <<"H","K">>, <<"K","X">>, <<"X","K">>,
    <<"M","N">>, <<"N","M">>, <<"M","W">>, <<"W","M">>,
    <<"P","R">>, <<"R","P">>,
    <<"U","V">>, <<"V","U">>, <<"W","V">>, <<"V","W">>}

\* verify_bbid_cusip_relationship.py: a set literal that lists both directions
OCR_PAIRS_vb == {
    <<"0","X">>, <<"X","0">>, <<"0","O">>, <<"O","0">>, <<"0","D">>, <<"D","0">>,
    <<"1","I">>, <<"I","1">>, <<"1","L">>, <<"L","1">>, <<"1","7">>, <<"7","1">>,
    <<"3","2">>, <<"2","3">>, <<"3","8">>, <<"8","3">>,
    <<"4","8">>, <<"8","4">>, <<"4","A">>, <<"A","4">>,
    <<"5","S">>, <<"S","5">>, <<"5","F">>, <<"F","5">>, <<"5","6">>, <<"6","5">>,
    <<"6","G">>, <<"G","6">>, <<"6","8">>, <<"8","6">>,
    <<"7","T">>, <<"T","7">>,
    <<"8","B">>, <<"B","8">>,
    <<"9","G">>, <<"G","9">>, <<"9","Q">>, <<"Q","9">>,
    <<"D","K">>, <<"K","D">>, <<"D","H">>, <<"H","D">>,
    <<"K","H">>, <<"H","K">>, <<"K","X">>, <<"X","K">>,
    <<"M","N">>, <<"N","M">>, <<"M","W">>, <<"W","M">>,
    <<"P","R">>, <<"R","P">>,
    <<"U","V">>, <<"V","U">>, <<"W","V">>, <<"V","W">>}

\* the table each script builds at import
TableOf(p) ==
    CASE p = "v3" -> OCR_PAIRS_v4
      [] p = "v4" -> OCR_PAIRS_v4
      [] p = "bm" -> OCR_PAIRS_bm
      [] p = "tcm" -> OCR_PAIRS_tcm

(***************************************************************************)
(* Similarity scorers.                                                     *)
(***************************************************************************)
SetMax(S) == CHOOSE m \in S : \A v \in S : v <= m

\* one round of score_pair's loop over zip(a, b)
PairScore(a, b) ==
    IF a = b THEN 3
    ELSE IF upper(a) = upper(b) THEN 2
    ELSE IF <<a, b>> \in OCR_PAIRS THEN 1
    ELSE 0

\* test_correct_matching.py looks the pair up in both directions
PairScore_tcm(a, b) ==
    IF a = b THEN 3
    ELSE IF upper(a) = upper(b) THEN 2
    ELSE IF <<a, b>> \in OCR_PAIRS \/ <<b, a>> \in OCR_PAIRS THEN 1
    ELSE 0

RECURSIVE SumScore(_, _, _)
SumScore(a, b, n) == IF n = 0 THEN 0 ELSE SumScore(a, b, n - 1) + PairScore(a[n], b[n])

RECURSIVE SumScore_tcm(_, _, _)
SumScore_tcm(a, b, n) == IF n = 0 THEN 0 ELSE SumScore_tcm(a, b, n - 1) + PairScore_tcm(a[n], b[n])

score_pair(a, b) == SumScore(a, b, Min(Len(a), Len(b)))

score_pair_tcm(a, b) == SumScore_tcm(a, b, Min(Len(a), Len(b)))

\* s[:skip] + s[skip+1:], skip 0-based
RemoveAt(s, skip) == Take(s, skip) \o Drop(s, skip + 1)

\* a plausible slip: "for skip in range(9)", the last position never removed
SkipRange_short == 0..8

\* "for skip in range(10)"
SkipRange == 0..9

\* populate_excel_v3.py, populate_excel_v4.py
cusip_ocr_score(correct9, csv_cusip) ==
    LET clen == Len(csv_cusip) IN
    IF clen = 9 THEN score_pair(correct9, csv_cusip)
    ELSE IF clen = 8 THEN score_pair(Take(correct9, 8), csv_cusip)
    ELSE IF clen = 10 THEN
        SetMax({0} \cup {score_pair(correct9, RemoveAt(csv_cusip, skip)) : skip \in SkipRange})
    ELSE IF clen = 7 THEN score_pair(Take(correct9, 7), csv_cusip)
    ELSE IF clen \in {11, 12} THEN
        SetMax({0} \cup
            {score_pair(correct9, RemoveAt(RemoveAt(csv_cusip, s[2]), s[1])) :
                s \in {t \in (0..clen-1) \X (0..clen-1) :
                          t[1] < t[2] /\ Len(RemoveAt(RemoveAt(csv_cusip, t[2]), t[1])) = 9}})
    ELSE LET ml == Min(9, clen) IN score_pair(Take(correct9, ml), Take(csv_cusip, ml))

\* build_matching_v3.py: no branch for lengths 11 and 12
cusip_ocr_score_bm(correct9, csv_cusip) ==
    LET clen == Len(csv_cusip) IN
    IF clen = 9 THEN score_pair(correct9, csv_cusip)
    ELSE IF clen = 8 THEN score_pair(Take(correct9, 8), csv_cusip)
    ELSE IF clen = 10 THEN
        SetMax({0} \cup {score_pair(correct9, RemoveAt(csv_cusip, skip)) : skip \in SkipRange})
    ELSE IF clen = 7 THEN score_pair(Take(correct9, 7), csv_cusip)
    ELSE LET ml == Min(9, clen) IN score_pair(Take(correct9, ml), Take(csv_cusip, ml))

\* a plausible slip: case 1 reports the maximum of case 2
ocr_score_max_copied(clen, best) ==
    IF clen = 9 THEN 24
    ELSE IF clen = 8 THEN 24
    ELSE IF clen = 10 THEN (IF best > 0 THEN 27 ELSE 0)
    ELSE Min(9, clen) * 3

\* best_max of each case; case 3 sets it only when a removal scores above 0
ocr_score_max(clen, best) ==
    IF clen = 9 THEN 27
    ELSE IF clen = 8 THEN 24
    ELSE IF clen = 10 THEN (IF best > 0 THEN 27 ELSE 0)
    ELSE Min(9, clen) * 3

\* best_score of each case
ocr_score_best(correct, csv_cusip) ==
    LET c9 == Take(correct, 9)
        clen == Len(csv_cusip)
    IN
    IF clen = 9 THEN score_pair_tcm(c9, csv_cusip)
    ELSE IF clen = 8 THEN score_pair_tcm(Take(c9, 8), csv_cusip)
    ELSE IF clen = 10 THEN
        SetMax({0} \cup {score_pair_tcm(c9, RemoveAt(csv_cusip, skip)) : skip \in SkipRange})
    ELSE LET min_len == Min(9, clen)
         IN  score_pair_tcm(Take(c9, min_len), Take(csv_cusip, min_len))

\* test_correct_matching.py: returns <<best_score, best_max>>
ocr_score(correct, csv_cusip) ==
    LET best == ocr_score_best(correct, csv_cusip)
    IN  <<best, ocr_score_max(Len(csv_cusip), best)>>

RECURSIVE PrefixLen(_, _)
PrefixLen(a, b) ==
    IF a # <<>> /\ b # <<>> /\ Head(a) = Head(b) THEN 1 + PrefixLen(Tail(a), Tail(b)) ELSE 0

\* issuer_prefix_match (v4, build_matching_v3), issuer_prefix_score (v3)
issuer_prefix_match(excel_issuer, csv_issuer) ==
    PrefixLen(Strip(Lower(excel_issuer)), RStripDots(Strip(Lower(csv_issuer))))

\* sum(1 for a, b in zip(e, c) if a == b)
Matches(e, c) == Cardinality({i \in 1..Min(Len(e), Len(c)) : e[i] = c[i]})

\* the ratio matches / max(len(e), len(c)) as the fraction num/den; "return 0" is 0/1
fuzzy_issuer_score(excel_issuer, csv_issuer) ==
    LET e == Take(Strip(Lower(excel_issuer)), 20)
        c == Take(RStripDots(Strip(Lower(csv_issuer))), 20)
    IN  IF e = <<>> \/ c = <<>> THEN [num |-> 0, den |-> 1]
        ELSE [num |-> Matches(e, c), den |-> Max(Len(e), Len(c))]

(***************************************************************************)
(* Identifier codec.                                                       *)
(***************************************************************************)
\* the value appended for one (upper-cased) character
CharValue(ch) ==
    IF isdigit(ch) THEN DigitValue(ch)
    ELSE IF isalpha(ch) THEN OrdFromA(ch) + 10
    ELSE IF ch = "*" THEN 36
    ELSE IF ch = "@" THEN 37
    ELSE IF ch = "#" THEN 38
    ELSE 0

\* build_matching_v3.py: no branch for '*', '@', '#'
CharValue_bm(ch) ==
    IF isdigit(ch) THEN DigitValue(ch)
    ELSE IF isalpha(ch) THEN OrdFromA(ch) + 10
    ELSE 0

\* one round of "for i, v in enumerate(values)": i is the 0-based position
Weighted(i, v) == LET w == IF i % 2 = 1 THEN v * 2 ELSE v IN (w \div 10) + (w % 10)

RECURSIVE CheckTotal(_, _)
CheckTotal(s, n) ==
    IF n = 0 THEN 0 ELSE CheckTotal(s, n - 1) + Weighted(n - 1, CharValue(s[n]))

RECURSIVE CheckTotal_bm(_, _)
CheckTotal_bm(s, n) ==
    IF n = 0 THEN 0 ELSE CheckTotal_bm(s, n - 1) + Weighted(n - 1, CharValue_bm(s[n]))

\* a plausible slip: str(10 - total % 10), without the outer % 10
cusip_check_digit_nomod(base8) ==
    LET t == 10 - (CheckTotal(Upper(base8), Len(base8)) % 10)
    IN  IF t = 10 THEN <<"1", "0">> ELSE <<DigitStr(t)>>

cusip_check_digit(base8) ==
    <<DigitStr((10 - (CheckTotal(Upper(base8), Len(base8)) % 10)) % 10)>>

cusip_check_digit_bm(base8) ==
    <<DigitStr((10 - (CheckTotal_bm(Upper(base8), Len(base8)) % 10)) % 10)>>

\* a plausible slip: the check digit of the whole reference code
correct_cusip_whole(bb_id) ==
    IF bb_id # <<>> /\ Len(bb_id) >= 8 THEN Take(bb_id, 8) \o cusip_check_digit(bb_id)
    ELSE IF bb_id # <<>> THEN bb_id
    ELSE <<>>

\* populate_excel_v3.py, populate_excel_v4.py: the canonical identifier of a row
correct_cusip(bb_id) ==
    IF bb_id # <<>> /\ Len(bb_id) >= 8 THEN Take(bb_id, 8) \o cusip_check_digit(Take(bb_id, 8))
    ELSE IF bb_id # <<>> THEN bb_id
    ELSE <<>>

\* build_matching_v3.py: a short reference code gives ''
correct_cusip_bm(bb_id) ==
    IF bb_id # <<>> /\ Len(bb_id) >= 8 THEN Take(bb_id, 8) \o cusip_check_digit_bm(Take(bb_id, 8))
    ELSE <<>>

\* test_correct_matching.py: a short reference code gives ''
correct_cusip_tcm(bb_id) ==
    IF bb_id # <<>> /\ Len(bb_id) >= 8 THEN Take(bb_id, 8) \o cusip_check_digit(Take(bb_id, 8))
    ELSE <<>>

(***************************************************************************)
(* Ratios.  A Python float that is a quotient of integers is the fraction  *)
(* [num, den] in lowest terms; float('inf') is 1/0.                        *)
(***************************************************************************)
RECURSIVE Gcd(_, _)
Gcd(a, b) == IF b = 0 THEN a ELSE Gcd(b, a % b)

Abs(a) == IF a < 0 THEN -a ELSE a

Ratio(n, d) == LET g == Gcd(Abs(n), d) IN [num |-> n \div g, den |-> d \div g]

Inf == [num |-> 1, den |-> 0]

IntR(n) == [num |-> n, den |-> 1]

RLess(a, b) == a.num * b.den < b.num * a.den

RLeq(a, b) == ~RLess(b, a)

RAdd(a, b) == Ratio(a.num * b.den + b.num * a.den, a.den * b.den)

RMulInt(a, k) == Ratio(a.num * k, a.den)

RMin(a, b) == IF RLess(b, a) THEN b ELSE a

(***************************************************************************)
(* Amounts (populate_excel_v4.py).  An amount string is digits with        *)
(* optional commas, one optional '.', an optional leading '-', an optional *)
(* M or MM suffix; anything else makes int() or float() raise ValueError.  *)
(* At most 3 digits follow the '.', so that every reading is an integer.   *)
(***************************************************************************)
RECURSIVE RemoveChar(_, _)
RemoveChar(s, ch) ==
    IF s = <<>> THEN <<>>
    ELSE IF Head(s) = ch THEN RemoveChar(Tail(s), ch)
    ELSE <<Head(s)>> \o RemoveChar(Tail(s), ch)

AllDigits(s) == s # <<>> /\ \A i \in 1..Len(s) : isdigit(s[i])

RECURSIVE IntOf(_)
IntOf(s) == IF s = <<>> THEN 0 ELSE 10 * IntOf(SubSeq(s, 1, Len(s) - 1)) + DigitValue(s[Len(s)])

RECURSIVE Pow10(_)
Pow10(k) == IF k = 0 THEN 1 ELSE 10 * Pow10(k - 1)

EndsWith(s, suf) == Len(s) >= Len(suf) /\ SubSeq(s, Len(s) - Len(suf) + 1, Len(s)) = suf

DotPositions(s) == {i \in 1..Len(s) : s[i] = "."}

\* int(t) as a set: the value, or {} where Python raises ValueError.  int()
\* strips white space and takes one sign before the digits.
IntSigned(u, signed) ==
    IF AllDigits(IF signed THEN Tail(u) ELSE u)
    THEN {IF signed /\ Head(u) = "-" THEN -IntOf(Tail(u)) ELSE IntOf(IF signed THEN Tail(u) ELSE u)}
    ELSE {}

IntStripped(u) == IntSigned(u, u # <<>> /\ Head(u) \in {"-", "+"})

PyInt(t) == IntStripped(Strip(t))

\* float(t) * 10^e as a set, for a t with at most e digits after the '.'
FloatParts(ip, fp, ndots, e) ==
    IF ndots > 1 \/ ip \o fp = <<>> \/ ~AllDigits(ip \o fp) \/ Len(fp) > e
    THEN {}
    ELSE {IntOf(ip \o fp) * Pow10(e - Len(fp))}

FloatAt(body, d, ndots, e) == FloatParts(SubSeq(body, 1, d - 1), SubSeq(body, d + 1, Len(body)), ndots, e)

FloatBody(body, dots, e) ==
    FloatAt(body, IF dots = {} THEN Len(body) + 1 ELSE CHOOSE i \in dots : TRUE, Cardinality(dots), e)

FloatSigned(u, signed, e) ==
    {IF signed /\ Head(u) = "-" THEN -v ELSE v :
        v \in FloatBody(IF signed THEN Tail(u) ELSE u, DotPositions(IF signed THEN Tail(u) ELSE u), e)}

FloatStripped(u, e) == FloatSigned(u, u # <<>> /\ Head(u) \in {"-", "+"}, e)

PyFloatTimes(t, e) == FloatStripped(Strip(t), e)

Signed(is_neg, S) == {IF is_neg THEN -v ELSE v : v \in S}

\* the three readings of a base with one '.', the two of a base without
ParseClean(base_clean, ndots, has_suffix) ==
    IF has_suffix THEN PyFloatTimes(base_clean, 6)
    ELSE IF ndots = 1 THEN
        UNION {{1000 * v : v \in PyInt(RemoveChar(base_clean, "."))},
               UNION {PyFloatTimes(base_clean, e) : e \in {6, 3}}}
    ELSE IF ndots > 1 THEN {}
    ELSE UNION {{v, 1000 * v} : v \in PyInt(base_clean)}

\* "is_neg = base_clean.startswith('-')", the sign put back on every reading
ParseSigned(base_clean, is_neg, has_suffix) ==
    Signed(is_neg, ParseClean(IF is_neg THEN Tail(base_clean) ELSE base_clean,
                              Cardinality(DotPositions(base_clean)), has_suffix))

ParseBase(base_clean, has_suffix) == ParseSigned(base_clean, StartsWith(base_clean, <<"-">>), has_suffix)

\* length of the M or MM suffix, 0 for none
SuffixLen(s) ==
    IF EndsWith(Upper(s), <<"M", "M">>) THEN 2
    ELSE IF EndsWith(Upper(s), <<"M">>) /\ Len(s) > 1 /\ ~isalpha(s[Len(s) - 1]) THEN 1
    ELSE 0

ParseSuffixed(s, n) ==
    ParseBase(Strip(RemoveChar(IF n > 0 THEN Strip(SubSeq(s, 1, Len(s) - n)) ELSE s, ",")), n > 0)

ParseStripped(s) ==
    IF s = <<>> \/ s = <<"-", "-">> THEN {}
    ELSE {c \in ParseSuffixed(s, SuffixLen(s)) : c > 0}

\* the set of dollar readings of a csv amount
parse_csv_amt_candidates(s) == ParseStripped(Strip(s))

MinErr(errs) == CHOOSE a \in errs : \A b \in errs : RLeq(a, b)

BestErr(candidates, excel_amt) ==
    IF candidates = {} \/ excel_amt = 0 THEN Inf
    ELSE MinErr({Ratio(Abs(excel_amt - c), Max(excel_amt, 1)) : c \in candidates})

\* the relative error of the closest reading, float('inf') when there is none;
\* excel_amt = 0 stands for an empty or zero cell ("not excel_amt")
best_amt_err(csv_amt_str, excel_amt) == BestErr(parse_csv_amt_candidates(csv_amt_str), excel_amt)

(***************************************************************************)
(* The codec and the scorers called on their own: the arguments are drawn  *)
(* from seeds and changed by bounded OCR-like edits, then a call is made.  *)
(***************************************************************************)
Progs == {"v3", "v4", "bm", "tcm"}

\* the scripts whose codec and scorers differ (populate_excel_v3.py has the
\* functions of populate_excel_v4.py, character for character)
CallProgs == {"v4", "bm", "tcm"}

MaxRefEdits == 2

MaxOcrEdits == 1

\* reference codes: the 8-character base of the scenario, the empty and short
\* codes, and codes of 8, 9 and 10 characters in both cases
RefSeeds == {
    <<"2","3","7","1","9","0","A","A">>,
    <<>>,
    <<"2","3","7","1">>,
    <<"2","3","7","1","9","0","A">>,
    <<"6","4","9","6","6","Q","A","B","1">>,
    <<"1","3","0","6","3","d","g","a","0","x">>}

RefEditChars == {"5", "9", "Z", "a", "*", "@", "#", "-"}

NoCall == [fn |-> "none", in |-> <<>>, val |-> <<>>, prev |-> <<>>]

\* the check digit and the loader of each script
CheckDigitOf(p, base8) == IF p = "bm" THEN cusip_check_digit_bm(base8) ELSE cusip_check_digit(base8)

CorrectCusipOf(p, bb_id) ==
    CASE p \in {"v3", "v4"} -> correct_cusip(bb_id)
      [] p = "bm" -> correct_cusip_bm(bb_id)
      [] p = "tcm" -> correct_cusip_tcm(bb_id)

IdleMatcher ==
    /\ pc = "idle"
    /\ workbook = <<>> /\ csv_file = <<>>
    /\ excel_rows = <<>> /\ csv_all = <<>>
    /\ matched = {} /\ matched_csv = {}
    /\ todo = <<>> /\ grp = 0 /\ scored = {}
    /\ out_ws = <<>> /\ deduped = <<>>

InitCodec ==
    /\ prog \in CallProgs
    /\ OCR_PAIRS = TableOf(prog)
    /\ IdleMatcher
    /\ argA \in RefSeeds
    /\ argB = <<>>
    /\ nedit = 0
    /\ ret = NoCall

\* one character of the reference code read differently
EditRef ==
    /\ ret.fn = "none"
    /\ nedit < MaxRefEdits
    /\ \E i \in 1..Len(argA), ch \in RefEditChars :
          /\ argA[i] # ch
          /\ argA' = [argA EXCEPT ![i] = ch]
    /\ nedit' = nedit + 1
    /\ UNCHANGED <<prog, OCR_PAIRS, matcherVars, argB, ret>>

CallCheckDigit ==
    /\ ret.fn = "none"
    /\ Len(argA) >= 8
    /\ ret' = [fn |-> "cusip_check_digit", in |-> Take(argA, 8),
               val |-> CheckDigitOf(prog, Take(argA, 8)), prev |-> <<>>]
    /\ UNCHANGED <<prog, OCR_PAIRS, matcherVars, argA, argB, nedit>>

CallCorrectCusip ==
    /\ ret.fn = "none"
    /\ ret' = [fn |-> "correct_cusip", in |-> argA,
               val |-> CorrectCusipOf(prog, argA), prev |-> <<>>]
    /\ UNCHANGED <<prog, OCR_PAIRS, matcherVars, argA, argB, nedit>>

\* the canonical identifier derived again from its own first 8 characters
CallRederive ==
    /\ ret.fn = "correct_cusip"
    /\ ret' = [fn |-> "rederive", in |-> ret.in,
               val |-> CorrectCusipOf(prog, Take(ret.val, 8)), prev |-> ret.val]
    /\ UNCHANGED <<prog, OCR_PAIRS, matcherVars, argA, argB, nedit>>

NextCodec == EditRef \/ CallCheckDigit \/ CallCorrectCusip \/ CallRederive

SpecCodec == InitCodec /\ [][NextCodec]_vars

(***************************************************************************)
(* Identifier codec: properties.                                           *)
(***************************************************************************)
IsAlnum(s) == \A i \in 1..Len(s) : isdigit(s[i]) \/ isalpha(s[i])

\* C3: for every 8-character alphanumeric base, the check digit returned is a
\* string of exactly one character, and that character is a decimal digit
\* '0'..'9'.  (That the same base gives the same digit on every call is the
\* purity of the function: the result depends on the argument alone.)
C3_CheckDigitIsOneDigit ==
    (ret.fn = "cusip_check_digit" /\ Len(ret.in) = 8 /\ IsAlnum(ret.in))
        => (Len(ret.val) = 1 /\ isdigit(ret.val[1]))

\* an alphanumeric base with a letter, edited twice, has been given its digit
C3_Witness ==
    /\ ret.fn = "cusip_check_digit" /\ Len(ret.in) = 8 /\ IsAlnum(ret.in)
    /\ \E i \in 1..8 : isalpha(ret.in[i])
    /\ nedit = MaxRefEdits
    /\ Len(ret.val) = 1 /\ isdigit(ret.val[1])

\* the reference checksum, as the claim words it
RefValue(ch) ==
    IF ch \in Range(DigitChars) THEN IndexOf(DigitChars, ch) - 1
    ELSE IF ch \in Range(UpperChars) THEN IndexOf(UpperChars, ch) + 9
    ELSE IF ch \in Range(LowerChars) THEN IndexOf(LowerChars, ch) + 9
    ELSE IF ch = "*" THEN 36
    ELSE IF ch = "@" THEN 37
    ELSE IF ch = "#" THEN 38
    ELSE 0

RECURSIVE DecimalDigitSum(_)
DecimalDigitSum(n) == IF n < 10 THEN n ELSE (n % 10) + DecimalDigitSum(n \div 10)

RECURSIVE RefTotal(_, _)
RefTotal(s, n) ==
    IF n = 0 THEN 0
    ELSE RefTotal(s, n - 1)
         + DecimalDigitSum(IF (n - 1) % 2 = 1 THEN 2 * RefValue(s[n]) ELSE RefValue(s[n]))

RefCheckDigit(s) == (10 - (RefTotal(s, Len(s)) % 10)) % 10

\* C4: for every 8-character base the check digit equals the reference
\* checksum (digit -> value, letter -> 10..35, '*','@','#' -> 36,37,38, other
\* -> 0; odd 0-based positions doubled; decimal digits added; (10 - total mod
\* 10) mod 10), and the base "237190AA" gives 1.  Stated of every script's
\* cusip_check_digit; build_matching_v3.py violates it.
C4_EqualsReference ==
    ret.fn = "cusip_check_digit"
        => /\ ret.val = <<DigitStr(RefCheckDigit(ret.in))>>
           /\ (ret.in = <<"2","3","7","1","9","0","A","A">> => ret.val = <<"1">>)

\* the same statement restricted to the scripts other than build_matching_v3.py
C4_EqualsReferenceOutsideBm ==
    (ret.fn = "cusip_check_digit" /\ prog # "bm")
        => /\ ret.val = <<DigitStr(RefCheckDigit(ret.in))>>
           /\ (ret.in = <<"2","3","7","1","9","0","A","A">> => ret.val = <<"1">>)

\* C5: for a reference code of at least 8 characters, deriving the canonical
\* identifier again from the first 8 characters of the canonical identifier
\* gives the same canonical identifier.
C5_DeriveIdempotent ==
    (ret.fn = "rederive" /\ Len(ret.in) >= 8) => ret.val = ret.prev

\* a reference code of more than 8 characters has been derived twice
C5_Witness ==
    /\ ret.fn = "rederive" /\ Len(ret.in) > 8
    /\ Len(ret.prev) = 9 /\ ret.val = ret.prev

\* C6: the canonical identifier is the first 8 characters of the reference
\* code followed by their check digit when the code has at least 8
\* characters, and the reference code itself when it is shorter (the empty
\* code gives the empty identifier).  Stated of every script's loader;
\* build_matching_v3.py violates it.
C6_CanonicalOfReference ==
    ret.fn = "correct_cusip"
        => ret.val = IF Len(ret.in) >= 8
                     THEN Take(ret.in, 8) \o CheckDigitOf(prog, Take(ret.in, 8))
                     ELSE ret.in

\* the same statement restricted to populate_excel_v3.py and populate_excel_v4.py
C6_CanonicalOfReferenceV3V4 ==
    (ret.fn = "correct_cusip" /\ prog \in {"v3", "v4"})
        => ret.val = IF Len(ret.in) >= 8
                     THEN Take(ret.in, 8) \o CheckDigitOf(prog, Take(ret.in, 8))
                     ELSE ret.in

(***************************************************************************)
(* The scorers called on their own.                                        *)
(***************************************************************************)
\* "City of Springfield"
Name_Springfield ==
    <<"C","i","t","y"," ","o","f"," ","S","p","r","i","n","g","f","i","e","l","d">>

\* "City of Springdale"
Name_Springdale ==
    <<"C","i","t","y"," ","o","f"," ","S","p","r","i","n","g","d","a","l","e">>

\* "CITY OF SPRINGFIELD..."
Name_SpringfieldCaps ==
    <<"C","I","T","Y"," ","O","F"," ","S","P","R","I","N","G","F","I","E","L","D",".",".",".">>

\* "  city of springfield "
Name_SpringfieldPadded ==
    <<" "," ","c","i","t","y"," ","o","f"," ","s","p","r","i","n","g","f","i","e","l","d"," ">>

\* "Metropolitan Water Dist of S"
Name_MetroDist ==
    <<"M","e","t","r","o","p","o","l","i","t","a","n"," ","W","a","t","e","r"," ","D","i","s","t"," ","o","f"," ","S">>

\* "Metropolitan Water Reclamation"
Name_MetroRecl ==
    <<"M","e","t","r","o","p","o","l","i","t","a","n"," ","W","a","t","e","r"," ","R","e","c","l","a","m","a","t","i","o","n">>

\* "Springfield Met.."
Name_SpringfieldMet ==
    <<"S","p","r","i","n","g","f","i","e","l","d"," ","M","e","t",".",".">>

NameSeeds == {Name_Springfield, Name_Springdale, Name_SpringfieldCaps, Name_SpringfieldPadded,
              Name_MetroDist, Name_MetroRecl, Name_SpringfieldMet, <<>>}

\* canonical identifiers: three of 9 characters and a short one left as it is
CanonSeeds == {correct_cusip(<<"2","3","7","1","9","0","A","A">>),
               correct_cusip(<<"6","4","9","6","6","Q","A","B","1">>),
               correct_cusip(<<"1","3","0","6","3","d","g","a","0","x">>),
               correct_cusip(<<"2","3","7","1">>)}

CusipEditChars == {"0", "O", "a", "7", "-"}

\* what the OCR may have made of a canonical identifier before single edits:
\* the identifier, its first 7 characters, and 2 or 3 stray characters added
CandidateSeeds(c) == {c, Take(c, 7), c \o <<"/", "2">>, <<"T", "H", "1">> \o c}

\* s[:p] + ch + s[p:], p 0-based
InsertAt(s, p, ch) == Take(s, p) \o <<ch>> \o Drop(s, p)

InitScore ==
    /\ prog \in CallProgs
    /\ OCR_PAIRS = TableOf(prog)
    /\ IdleMatcher
    /\ \/ argA \in CanonSeeds /\ argB \in CandidateSeeds(argA)
       \/ prog # "tcm" /\ argA \in NameSeeds /\ argB \in NameSeeds
    /\ nedit = 0
    /\ ret = NoCall

\* the OCR reads one character of the identifier as another
SubstChar ==
    /\ ret.fn = "none" /\ nedit < MaxOcrEdits /\ argA \in CanonSeeds
    /\ \E i \in 1..Len(argB), ch \in CusipEditChars :
          /\ argB[i] # ch
          /\ argB' = [argB EXCEPT ![i] = ch]
    /\ nedit' = nedit + 1
    /\ UNCHANGED <<prog, OCR_PAIRS, matcherVars, argA, ret>>

\* the OCR inserts a stray character
InsertChar ==
    /\ ret.fn = "none" /\ nedit < MaxOcrEdits /\ argA \in CanonSeeds
    /\ \E p \in 0..Len(argB), ch \in CusipEditChars : argB' = InsertAt(argB, p, ch)
    /\ nedit' = nedit + 1
    /\ UNCHANGED <<prog, OCR_PAIRS, matcherVars, argA, ret>>

\* the OCR drops a character
DropChar ==
    /\ ret.fn = "none" /\ nedit < MaxOcrEdits /\ argA \in CanonSeeds
    /\ \E p \in 0..Len(argB) - 1 : argB' = RemoveAt(argB, p)
    /\ nedit' = nedit + 1
    /\ UNCHANGED <<prog, OCR_PAIRS, matcherVars, argA, ret>>

CusipOcrScoreOf(p, correct9, csv_cusip) ==
    IF p = "bm" THEN cusip_ocr_score_bm(correct9, csv_cusip) ELSE cusip_ocr_score(correct9, csv_cusip)

CallCusipOcrScore ==
    /\ ret.fn = "none" /\ argA \in CanonSeeds /\ prog # "tcm"
    /\ ret' = [fn |-> "cusip_ocr_score", in |-> <<argA, argB>>,
               val |-> CusipOcrScoreOf(prog, argA, argB), prev |-> <<>>]
    /\ UNCHANGED <<prog, OCR_PAIRS, matcherVars, argA, argB, nedit>>

CallOcrScore ==
    /\ ret.fn = "none" /\ argA \in CanonSeeds /\ prog = "tcm"
    /\ ret' = [fn |-> "ocr_score", in |-> <<argA, argB>>,
               val |-> ocr_score(argA, argB), prev |-> <<>>]
    /\ UNCHANGED <<prog, OCR_PAIRS, matcherVars, argA, argB, nedit>>

CallFuzzyIssuerScore ==
    /\ ret.fn = "none" /\ argA \in NameSeeds /\ prog = "v4"
    /\ ret' = [fn |-> "fuzzy_issuer_score", in |-> <<argA, argB>>,
               val |-> fuzzy_issuer_score(argA, argB), prev |-> <<>>]
    /\ UNCHANGED <<prog, OCR_PAIRS, matcherVars, argA, argB, nedit>>

CallIssuerPrefixMatch ==
    /\ ret.fn = "none" /\ argA \in NameSeeds /\ prog # "tcm"
    /\ ret' = [fn |-> "issuer_prefix_match", in |-> <<argA, argB>>,
               val |-> issuer_prefix_match(argA, argB), prev |-> <<>>]
    /\ UNCHANGED <<prog, OCR_PAIRS, matcherVars, argA, argB, nedit>>

NextScore ==
    \/ SubstChar \/ InsertChar \/ DropChar
    \/ CallCusipOcrScore \/ CallOcrScore \/ CallFuzzyIssuerScore \/ CallIssuerPrefixMatch

SpecScore == InitScore /\ [][NextScore]_vars

(***************************************************************************)
(* Similarity scorers: properties.                                         *)
(***************************************************************************)
\* C8: the raw score ocr_score returns never exceeds the max_possible it
\* returns with it, for every canonical identifier and candidate string; and
\* fuzzy_issuer_score returns a ratio num/den with 0 <= num/den <= 1.
C8_ScoresBounded ==
    /\ ret.fn = "ocr_score" => (0 <= ret.val[1] /\ ret.val[1] <= ret.val[2])
    /\ ret.fn = "fuzzy_issuer_score" =>
          (ret.val.den > 0 /\ 0 <= ret.val.num /\ ret.val.num <= ret.val.den)

\* ocr_score has scored a 9-character candidate that differs from the identifier
C8_Witness ==
    /\ ret.fn = "ocr_score" /\ Len(argA) = 9 /\ Len(argB) = 9 /\ argA # argB
    /\ 0 < ret.val[1] /\ ret.val[1] < ret.val[2]

\* fuzzy_issuer_score has compared two names longer than 20 characters that agree in part
C8_WitnessFuzzy ==
    /\ ret.fn = "fuzzy_issuer_score" /\ Len(argA) > 20 /\ Len(argB) > 20
    /\ 0 < ret.val.num /\ ret.val.num < ret.val.den

\* the score part of a scorer's result
ScoreOf(r) == IF r.fn = "ocr_score" THEN r.val[1] ELSE r.val

\* C10: when the candidate is a 9-character canonical identifier with one
\* extra character inserted at any position 0..9, cusip_ocr_score and
\* ocr_score return 27.
C10_InsertionScoresMax ==
    (/\ ret.fn \in {"cusip_ocr_score", "ocr_score"}
     /\ Len(argA) = 9
     /\ \E p \in 0..9 : Len(argB) = 10 /\ RemoveAt(argB, p) = argA)
        => ScoreOf(ret) = 27

\* a character that is not in the identifier was inserted after its last
\* character, and the call returned
C10_Witness ==
    /\ ret.fn \in {"cusip_ocr_score", "ocr_score"}
    /\ Len(argA) = 9 /\ Len(argB) = 10 /\ Take(argB, 9) = argA
    /\ argB[10] \notin Range(argA)
    /\ ScoreOf(ret) = 27

(***************************************************************************)
(* The matchers.  Inputs: a workbook and an OCR csv of a few rows each.    *)
(* Rows and candidates are numbered from 1 here (Python numbers from 0).   *)
(***************************************************************************)
MaxEnt == 2

MaxCand == 2

\* canonical identifiers of the scenario: one as it is, one read with I for 1
\* and O for 0 behind the stray "TH "
Cusip_AA == correct_cusip(<<"2","3","7","1","9","0","A","A">>)

Cusip_AB_ocr ==
    <<"T","H"," ">> \o [correct_cusip(<<"2","3","7","1","9","0","A","B">>)
                            EXCEPT ![4] = "I", ![6] = "O"]

\* "Town of Springdale"
Name_TownSpringdale ==
    <<"T","o","w","n"," ","o","f"," ","S","p","r","i","n","g","d","a","l","e">>

\* workbook rows: the quoted code of the formula cell, the issuer cell, the
\* amount cell (0 for an empty cell)
EntityPool == {
    [bb_id |-> <<"2","3","7","1","9","0","A","A">>, issuer |-> Name_Springfield, amt |-> 1000],
    [bb_id |-> <<"2","3","7","1","9","0","A","B">>, issuer |-> Name_Springdale, amt |-> 2000],
    [bb_id |-> <<>>, issuer |-> Name_Springfield, amt |-> 1000],
    [bb_id |-> <<"2","3","7","1">>, issuer |-> Name_MetroRecl, amt |-> 0]}

\* csv rows: len(row), row[0], row[1], row[2], row[4], and whether one of
\* row[7:] starts with a BICS prefix (as it is or once split_bics_merge has
\* cut a merged Yes/No off)
RowPool == {
    [nfields |-> 12, cusip |-> Cusip_AA, state |-> <<"I","L">>, issuer |-> Name_SpringfieldCaps,
     amt_raw |-> <<"1",",","0","0","0">>, bics |-> TRUE],
    [nfields |-> 12, cusip |-> Cusip_AB_ocr, state |-> <<"-","-">>, issuer |-> Name_TownSpringdale,
     amt_raw |-> <<"2">>, bics |-> TRUE],
    [nfields |-> 12, cusip |-> <<"2","3","7","1">>, state |-> <<"C","A">>, issuer |-> Name_MetroDist,
     amt_raw |-> <<"-","-">>, bics |-> FALSE],
    [nfields |-> 9, cusip |-> Cusip_AA, state |-> <<"I","L">>, issuer |-> Name_Springfield,
     amt_raw |-> <<"1">>, bics |-> TRUE],
    [nfields |-> 16, cusip |-> Cusip_AA, state |-> <<" ","I","L">>, issuer |-> Name_Springfield,
     amt_raw |-> <<"1",",","0","0","0">>, bics |-> FALSE]}

SeqsUpTo(S, n) == UNION {[1..k -> S] : k \in 0..n}

Init ==
    /\ prog \in Progs
    /\ OCR_PAIRS = TableOf(prog)
    /\ pc = "load"
    /\ workbook \in SeqsUpTo(EntityPool, MaxEnt)
    /\ csv_file \in SeqsUpTo(RowPool, MaxCand)
    /\ excel_rows = <<>> /\ csv_all = <<>>
    /\ matched = {} /\ matched_csv = {}
    /\ todo = <<>> /\ grp = 0 /\ scored = {}
    /\ out_ws = <<>> /\ deduped = <<>>
    /\ argA = <<>> /\ argB = <<>> /\ nedit = 0 /\ ret = NoCall

\* re.match(r'^[A-Za-z0-9/]+$', cusip)
CusipPattern(cusip) == cusip # <<>> /\ \A i \in 1..Len(cusip) : isdigit(cusip[i]) \/ isalpha(cusip[i]) \/ cusip[i] = "/"

\* the cusip a csv row is loaded under
LoadedCusip(row) ==
    LET cusip == Strip(row.cusip)
    IN  IF StartsWith(cusip, <<"T", "H", " ">>) THEN Drop(cusip, 3) ELSE cusip

\* the row filter of the csv loop; the all-'--' test on row[:5] cannot hold
\* once row[0] has passed the pattern
RowAccepted(row) ==
    /\ row.nfields >= 10
    /\ Len(LoadedCusip(row)) >= 4
    /\ CusipPattern(LoadedCusip(row))

\* parse_csv_row: None is <<>>; a parsed row is <<p>>, p holding column 1 of
\* the 20-column structure.  Without a BICS anchor the positional reading
\* needs 9 fields behind the first 7.
parse_csv_row(fields) ==
    IF fields.nfields < 10 THEN <<>>
    ELSE IF ~fields.bics /\ fields.nfields - 7 < 9 THEN <<>>
    ELSE <<[state |-> fields.state]>>

RECURSIVE LoadCsv(_, _)
LoadCsv(rows, line) ==
    IF rows = <<>> THEN <<>>
    ELSE (IF RowAccepted(Head(rows))
          THEN <<[line |-> line, cusip |-> LoadedCusip(Head(rows)),
                  issuer |-> Strip(Head(rows).issuer), amt_raw |-> Strip(Head(rows).amt_raw),
                  parsed |-> parse_csv_row(Head(rows))]>>
          ELSE <<>>) \o LoadCsv(Tail(rows), line + 1)

LoadExcel(p, rows) ==
    [i \in 1..Len(rows) |->
        [bb_id |-> rows[i].bb_id, correct_cusip |-> CorrectCusipOf(p, rows[i].bb_id),
         issuer |-> Strip(rows[i].issuer), amt |-> rows[i].amt]]

FirstPc(p) ==
    CASE p = "v3" -> "phase1"
      [] p = "v4" -> "stage2"
      [] p = "bm" -> "pairs"
      [] p = "tcm" -> "pairs"

\* both loading loops
Load ==
    /\ pc = "load"
    /\ excel_rows' = LoadExcel(prog, workbook)
    /\ csv_all' = LoadCsv(csv_file, 1)
    /\ pc' = FirstPc(prog)
    /\ UNCHANGED <<prog, OCR_PAIRS, workbook, csv_file, out_ws, deduped, matched, matched_csv, todo, grp, scored,
                   callVars>>

(***************************************************************************)
(* Sorting.  list.sort is stable, so a pair list sorted by a key is the    *)
(* pairs ordered by (key, position at which the loops generated the pair). *)
(* A key is a tuple of ratios.  Sums with a float ratio are exact here;    *)
(* the floats of the code can differ in the last place between two pairs   *)
(* whose exact sums are equal.                                             *)
(***************************************************************************)
RNeg(a) == [num |-> -a.num, den |-> a.den]

REq(a, b) == ~RLess(a, b) /\ ~RLess(b, a)

KeyLess(k1, k2) ==
    \E i \in 1..Len(k1) : RLess(k1[i], k2[i]) /\ \A j \in 1..(i - 1) : REq(k1[j], k2[j])

\* a plausible slip: the pair list sorted in ascending order of its keys
Before_ascending(a, b) == KeyLess(b.key, a.key) \/ (~KeyLess(a.key, b.key) /\ a.gen < b.gen)

Before(a, b) == KeyLess(a.key, b.key) \/ (~KeyLess(b.key, a.key) /\ a.gen < b.gen)

\* a plausible slip: the list is left in generation order
SortPairs_unsorted(S) ==
    [i \in 1..Cardinality(S) |-> CHOOSE x \in S : Cardinality({y \in S : y.gen < x.gen}) = i - 1]

SortPairs(S) ==
    [i \in 1..Cardinality(S) |-> CHOOSE x \in S : Cardinality({y \in S : Before(y, x)}) = i - 1]

\* the orders in which a loop can visit a set of csv indices
Orders(n) == {ord \in [1..n -> 1..n] : \A i, j \in 1..n : ord[i] = ord[j] => i = j}

Identity(n) == [i \in 1..n |-> i]

PosIn(ord, ci) == CHOOSE k \in 1..Len(ord) : ord[k] = ci

\* position of the pair (ei, ci) in generation order
Gen(ei, ci, ord) == ei * (Len(ord) + 1) + PosIn(ord, ci)

\* the pairs generated by a loop that visits the candidates in the order ord
InOrder(pairs, ord) == {[x EXCEPT !.gen = Gen(x.ei, x.ci, ord)] : x \in pairs}

\* the sorted lists a loop over sets of candidates can produce
SetLoopSorts(pairs, n) == {SortPairs(InOrder(pairs, ord)) : ord \in Orders(n)}

MatchedKeys == {m[1] : m \in matched}

\* dict assignment matched[ei] = ci
SetItem(d, ei, ci) == {m \in d : m[1] # ei} \cup {<<ei, ci>>}

(***************************************************************************)
(* The greedy loop shared by all phases:                                   *)
(*   if ei in matched or ci in matched_csv: continue                       *)
(*   matched[ei] = ci; matched_csv.add(ci)                                 *)
(* One step is one iteration; after the last pair the script moves on.     *)
(***************************************************************************)
GreedyPcs == {"greedy1", "greedy2", "greedy3", "greedy4", "greedy"}

AfterGreedy(at) ==
    CASE at = "greedy1" -> "phase2"
      [] at = "greedy2" -> "phase3"
      [] at = "greedy3" -> IF prog = "v4" THEN "stage4" ELSE "output"
      [] at = "greedy4" -> "output"
      [] at = "greedy" -> "done"

\* a phase hands its sorted pairs to the loop
StartGreedy(pairs, at) ==
    /\ todo' = pairs
    /\ pc' = IF pairs = <<>> THEN AfterGreedy(at) ELSE at

\* a plausible slip: only the row is tested
Taken_rowonly(ei, ci) == ei \in MatchedKeys

\* a plausible slip: only the candidate is tested
Taken_candonly(ei, ci) == ci \in matched_csv

\* "if ei in matched or ci in matched_csv"
Taken(ei, ci) == ei \in MatchedKeys \/ ci \in matched_csv

\* a plausible slip: the candidate is marked used before the test, so a
\* pair skipped because its row is taken still uses up its candidate
GreedyStep_marksFirst ==
    /\ pc \in GreedyPcs
    /\ todo # <<>>
    /\ matched' = IF Taken(Head(todo).ei, Head(todo).ci) THEN matched
                  ELSE SetItem(matched, Head(todo).ei, Head(todo).ci)
    /\ matched_csv' = matched_csv \cup {Head(todo).ci}
    /\ todo' = Tail(todo)
    /\ pc' = IF Tail(todo) = <<>> THEN AfterGreedy(pc) ELSE pc
    /\ UNCHANGED <<prog, OCR_PAIRS, workbook, csv_file, out_ws, deduped, excel_rows, csv_all, grp, scored, callVars>>

GreedyStep ==
    /\ pc \in GreedyPcs
    /\ todo # <<>>
    /\ IF Taken(Head(todo).ei, Head(todo).ci)
       THEN UNCHANGED <<matched, matched_csv>>
       ELSE /\ matched' = SetItem(matched, Head(todo).ei, Head(todo).ci)
            /\ matched_csv' = matched_csv \cup {Head(todo).ci}
    /\ todo' = Tail(todo)
    /\ pc' = IF Tail(todo) = <<>> THEN AfterGreedy(pc) ELSE pc
    /\ UNCHANGED <<prog, OCR_PAIRS, workbook, csv_file, out_ws, deduped, excel_rows, csv_all, grp, scored, callVars>>

(***************************************************************************)
(* populate_excel_v3.py                                                    *)
(***************************************************************************)
\* candidates of phase 1: same first 4 characters of the 6-character issuer
\* key, or a cusip prefix that agrees in at least 2 of its 4 positions
IssuerKey(issuer) == Take(Strip(Lower(issuer)), 6)

Compat(cusip4, key) ==
    Cardinality({i \in 1..Min(Len(cusip4), Len(key)) :
                    cusip4[i] = key[i] \/ <<cusip4[i], key[i]>> \in OCR_PAIRS}) >= 2

Candidates(e) ==
    {ci \in 1..Len(csv_all) :
        \/ Take(IssuerKey(csv_all[ci].issuer), 4) = Take(IssuerKey(e.issuer), 4)
        \/ Compat(Take(e.correct_cusip, 4), Take(csv_all[ci].cusip, 4))}

AllPairs == (1..Len(excel_rows)) \X (1..Len(csv_all))

Phase1Record(ei, ci, cusip_sc, issuer_sc, gen) ==
    [ei |-> ei, ci |-> ci, total |-> IntR(cusip_sc + Min(issuer_sc, 15) * 2),
     cusip_sc |-> cusip_sc, issuer_sc |-> issuer_sc,
     key |-> <<IntR(-(cusip_sc + Min(issuer_sc, 15) * 2)), IntR(-cusip_sc)>>, gen |-> gen]

Phase1Pair(ei, ci, ord) ==
    Phase1Record(ei, ci, cusip_ocr_score(excel_rows[ei].correct_cusip, csv_all[ci].cusip),
                 issuer_prefix_match(excel_rows[ei].issuer, csv_all[ci].issuer), Gen(ei, ci, ord))

\* the pairs phase 1 scores: rows with a full canonical identifier against
\* their candidates
Phase1Scored ==
    {q \in AllPairs : /\ Len(excel_rows[q[1]].correct_cusip) >= 8
                      /\ q[2] \in Candidates(excel_rows[q[1]])}

Phase1Keep(x) == x.total.num >= 25 /\ (x.cusip_sc >= 12 \/ x.issuer_sc >= 8)

\* Phase 1: strict matching; "for ci in candidates" visits a set
Phase1 ==
    /\ pc = "phase1"
    /\ scored' = scored \cup Phase1Scored
    /\ \E sorted \in SetLoopSorts({x \in {Phase1Pair(q[1], q[2], Identity(Len(csv_all))) :
                                            q \in Phase1Scored} : Phase1Keep(x)}, Len(csv_all)) :
          StartGreedy(sorted, "greedy1")
    /\ UNCHANGED <<prog, OCR_PAIRS, workbook, csv_file, out_ws, deduped, excel_rows, csv_all,
                   matched, matched_csv, grp, callVars>>

\* total = cusip_sc + prefix_sc * 2, sorted by (-total, -issuer_sc)
Phase2Record(ei, ci, cusip_sc, prefix_sc, issuer_sc, gen) ==
    [ei |-> ei, ci |-> ci, total |-> IntR(cusip_sc + prefix_sc * 2), cusip_sc |-> cusip_sc,
     issuer_sc |-> prefix_sc, fuzzy |-> issuer_sc,
     key |-> <<IntR(-(cusip_sc + prefix_sc * 2)), RNeg(issuer_sc)>>, gen |-> gen]

Phase2Pair(ei, ci) ==
    Phase2Record(ei, ci, cusip_ocr_score(excel_rows[ei].correct_cusip, csv_all[ci].cusip),
                 issuer_prefix_match(excel_rows[ei].issuer, csv_all[ci].issuer),
                 fuzzy_issuer_score(excel_rows[ei].issuer, csv_all[ci].issuer),
                 Gen(ei, ci, Identity(Len(csv_all))))

\* the pairs phase 2 scores: unmatched rows with a full canonical identifier
\* against the free candidates that pass "if issuer_sc < 0.35: continue"
Phase2Scored ==
    {q \in AllPairs :
        /\ q[1] \notin MatchedKeys
        /\ Len(excel_rows[q[1]].correct_cusip) >= 8
        /\ q[2] \notin matched_csv
        /\ ~RLess(fuzzy_issuer_score(excel_rows[q[1]].issuer, csv_all[q[2]].issuer), Ratio(35, 100))}

Phase2Keep(x) == x.total.num >= 15

\* Phase 2: broader matching for the rows phase 1 left
Phase2 ==
    /\ pc = "phase2"
    /\ scored' = scored \cup Phase2Scored
    /\ StartGreedy(SortPairs({x \in {Phase2Pair(q[1], q[2]) : q \in Phase2Scored} : Phase2Keep(x)}),
                   "greedy2")
    /\ UNCHANGED <<prog, OCR_PAIRS, workbook, csv_file, out_ws, deduped, excel_rows, csv_all,
                   matched, matched_csv, grp, callVars>>

\* total = cusip_sc + issuer_sc * 30, sorted by -total
Phase3Record(ei, ci, cusip_sc, issuer_sc, gen) ==
    [ei |-> ei, ci |-> ci, total |-> RAdd(IntR(cusip_sc), RMulInt(issuer_sc, 30)),
     cusip_sc |-> cusip_sc, fuzzy |-> issuer_sc,
     key |-> <<RNeg(RAdd(IntR(cusip_sc), RMulInt(issuer_sc, 30)))>>, gen |-> gen]

Phase3Pair(ei, ci) ==
    Phase3Record(ei, ci, cusip_ocr_score(excel_rows[ei].correct_cusip, csv_all[ci].cusip),
                 fuzzy_issuer_score(excel_rows[ei].issuer, csv_all[ci].issuer),
                 Gen(ei, ci, Identity(Len(csv_all))))

\* the pairs phase 3 scores: unmatched rows with a canonical identifier
\* against every free candidate
Phase3Scored ==
    {q \in AllPairs :
        /\ q[1] \notin MatchedKeys
        /\ excel_rows[q[1]].correct_cusip # <<>>
        /\ q[2] \notin matched_csv}

\* the pair at which "if total > best_score" fires last: the first of the
\* row's pairs with the highest total, when that total is above 0
Phase3Best(x, pairs) ==
    /\ RLess(IntR(0), x.total)
    /\ \A y \in pairs :
          y.ei = x.ei =>
             /\ ~RLess(x.total, y.total)
             /\ (y.ci < x.ci => RLess(y.total, x.total))

\* a plausible slip: the best candidate is kept whatever its name ratio
Phase3Keep_nofloor(x, pairs) == Phase3Best(x, pairs)

\* "if best_ci >= 0 and best_issuer >= 0.3"
Phase3Keep(x, pairs) == Phase3Best(x, pairs) /\ ~RLess(x.fuzzy, Ratio(3, 10))

Phase3Pairs(pairs) == {x \in pairs : Phase3Keep(x, pairs)}

\* Phase 3: the best free candidate of every row still unmatched
Phase3 ==
    /\ pc = "phase3"
    /\ scored' = scored \cup Phase3Scored
    /\ StartGreedy(SortPairs(Phase3Pairs({Phase3Pair(q[1], q[2]) : q \in Phase3Scored})), "greedy3")
    /\ UNCHANGED <<prog, OCR_PAIRS, workbook, csv_file, out_ws, deduped, excel_rows, csv_all,
                   matched, matched_csv, grp, callVars>>

(***************************************************************************)
(* populate_excel_v4.py                                                    *)
(***************************************************************************)
\* Stage 1.  excel_groups: the rows of each issuer, keyed in order of first
\* occurrence
FirstRow(issuer) == CHOOSE ei \in 1..Len(excel_rows) :
                       /\ excel_rows[ei].issuer = issuer
                       /\ \A ej \in 1..(ei - 1) : excel_rows[ej].issuer # issuer

excel_groups == {[issuer |-> excel_rows[ei].issuer,
                  ei_list |-> {ej \in 1..Len(excel_rows) : excel_rows[ej].issuer = excel_rows[ei].issuer},
                  key |-> <<IntR(-Cardinality({ej \in 1..Len(excel_rows) :
                                                  excel_rows[ej].issuer = excel_rows[ei].issuer}))>>,
                  gen |-> FirstRow(excel_rows[ei].issuer)] : ei \in 1..Len(excel_rows)}

\* the prefix length the inner loop of stage 1 counts
Stage1PrefixLen(issuer, c) == PrefixLen(Strip(Lower(issuer)), RStripDots(Strip(Lower(c.issuer))))

\* the issuer a csv row is assigned to: the first of the longest prefix
\* matches, if that match has 8 characters
BestIssuer(c) ==
    {g.issuer : g \in {h \in excel_groups :
        /\ Stage1PrefixLen(h.issuer, c) >= 8
        /\ \A k \in excel_groups :
              /\ Stage1PrefixLen(k.issuer, c) <= Stage1PrefixLen(h.issuer, c)
              /\ (k.gen < h.gen => Stage1PrefixLen(k.issuer, c) < Stage1PrefixLen(h.issuer, c))}}

issuer_csv_map(issuer) == {ci \in 1..Len(csv_all) : issuer \in BestIssuer(csv_all[ci])}

\* Stage 2.  sorted(excel_groups.items(), key=lambda x: -len(x[1]))
sorted_groups == SortPairs(excel_groups)

\* one cell of the cost matrix, a ratio
CostOf(cusip_sc, amt_err) ==
    RAdd(IntR(-cusip_sc * 3),
         IF RLess(amt_err, Inf) THEN RMin(RMulInt(amt_err, 200), IntR(1000)) ELSE IntR(500))

Cost(ei, ci) ==
    CostOf(IF Len(excel_rows[ei].correct_cusip) >= 8
           THEN cusip_ocr_score(excel_rows[ei].correct_cusip, csv_all[ci].cusip) ELSE 0,
           best_amt_err(csv_all[ci].amt_raw, excel_rows[ei].amt))

\* the cost matrix of a group, indexed by (row, candidate)
CostMatrix(ei_list, ci_list) == [q \in ei_list \X ci_list |-> Cost(q[1], q[2])]

RECURSIVE TotalCost(_, _)
TotalCost(cost, A) ==
    IF A = {} THEN IntR(0)
    ELSE LET a == CHOOSE x \in A : TRUE IN RAdd(cost[a], TotalCost(cost, A \ {a}))

\* the one-to-one assignments of the smaller side of the matrix
Assignments(eis, cis) ==
    IF Cardinality(eis) <= Cardinality(cis)
    THEN {{<<ei, f[ei]>> : ei \in eis} :
             f \in {g \in [eis -> cis] : \A a, b \in eis : g[a] = g[b] => a = b}}
    ELSE {{<<f[ci], ci>> : ci \in cis} :
             f \in {g \in [cis -> eis] : \A a, b \in cis : g[a] = g[b] => a = b}}

\* a plausible slip: any one-to-one assignment is returned
LeastCost_any(cost, As) == As

LeastCost(cost, As) == {A \in As : \A B \in As : ~RLess(TotalCost(cost, B), TotalCost(cost, A))}

\* scipy's linear_sum_assignment: an assignment of least total cost; which
\* one of several is left to the solver
linear_sum_assignment(cost) ==
    LeastCost(cost, Assignments({q[1] : q \in DOMAIN cost}, {q[2] : q \in DOMAIN cost}))

\* zip(row_ind, col_ind): by row when n_excel <= n_csv, by column otherwise
ZipOrder(cost, A, byRow) ==
    SortPairs({[ei |-> a[1], ci |-> a[2], cost |-> cost[a], key |-> <<IntR(0)>>,
                gen |-> IF byRow THEN a[1] ELSE a[2]] : a \in A})

AfterAssign(g) == IF g = Len(sorted_groups) THEN "stage3" ELSE "stage2"

\* the rest of a round of "for issuer, ei_list in sorted_groups" once the
\* cost matrix is built
SolveGroup(cost, byRow, g) ==
    IF DOMAIN cost = {}
    THEN /\ todo' = <<>>
         /\ pc' = AfterAssign(g)
    ELSE /\ \E A \in linear_sum_assignment(cost) : todo' = ZipOrder(cost, A, byRow)
         /\ pc' = "assign2"

\* the cells for which the matrix loop calls cusip_ocr_score
Stage2Scored(ei_list, ci_list) ==
    {q \in ei_list \X ci_list : Len(excel_rows[q[1]].correct_cusip) >= 8}

\* ci_list = [ci for ci in issuer_csv_map[issuer] if ci not in matched_csv]
GroupMatrix(ei_list, ci_list, g) ==
    /\ scored' = scored \cup Stage2Scored(ei_list, ci_list)
    /\ SolveGroup(CostMatrix(ei_list, ci_list), Cardinality(ei_list) <= Cardinality(ci_list), g)

Stage2Group ==
    /\ pc = "stage2"
    /\ IF grp = Len(sorted_groups)
       THEN /\ pc' = "stage3"
            /\ UNCHANGED <<todo, grp, scored>>
       ELSE /\ grp' = grp + 1
            /\ GroupMatrix(sorted_groups[grp + 1].ei_list,
                           issuer_csv_map(sorted_groups[grp + 1].issuer) \ matched_csv, grp + 1)
    /\ UNCHANGED <<prog, OCR_PAIRS, workbook, csv_file, out_ws, deduped, excel_rows, csv_all,
                   matched, matched_csv, callVars>>

\* one round of "for ri, ci_idx in zip(row_ind, col_ind)"
Stage2Assign ==
    /\ pc = "assign2"
    /\ todo # <<>>
    /\ IF RLess(Head(todo).cost, IntR(500))
       THEN /\ matched' = SetItem(matched, Head(todo).ei, Head(todo).ci)
            /\ matched_csv' = matched_csv \cup {Head(todo).ci}
       ELSE UNCHANGED <<matched, matched_csv>>
    /\ todo' = Tail(todo)
    /\ pc' = IF Tail(todo) = <<>> THEN AfterAssign(grp) ELSE pc
    /\ UNCHANGED <<prog, OCR_PAIRS, workbook, csv_file, out_ws, deduped, excel_rows, csv_all, grp, scored, callVars>>

\* Stage 3.  candidates: a free csv row whose upper-cased 3-character cusip
\* prefix agrees with the row's in at least 2 positions
Compat3(prefix3, key) ==
    Cardinality({i \in 1..Min(Len(prefix3), Len(key)) :
                    prefix3[i] = key[i] \/ <<prefix3[i], key[i]>> \in OCR_PAIRS}) >= 2

amt_bonus3(amt_err) ==
    IF RLess(amt_err, Ratio(5, 100)) THEN 30
    ELSE IF RLess(amt_err, Ratio(10, 100)) THEN 20
    ELSE IF RLess(amt_err, Ratio(20, 100)) THEN 10
    ELSE 0

Stage3Record(ei, ci, cusip_sc, issuer_sc, amt_err, amt_bonus, gen) ==
    [ei |-> ei, ci |-> ci, total |-> IntR(cusip_sc + Min(issuer_sc, 15) * 2 + amt_bonus),
     cusip_sc |-> cusip_sc, issuer_sc |-> issuer_sc, amt_err |-> amt_err,
     key |-> <<IntR(-(cusip_sc + Min(issuer_sc, 15) * 2 + amt_bonus)), amt_err>>, gen |-> gen]

Stage3Score(ei, ci, amt_err, gen) ==
    Stage3Record(ei, ci, cusip_ocr_score(excel_rows[ei].correct_cusip, csv_all[ci].cusip),
                 issuer_prefix_match(excel_rows[ei].issuer, csv_all[ci].issuer),
                 amt_err, amt_bonus3(amt_err), gen)

Stage3Pair(ei, ci, ord) ==
    Stage3Score(ei, ci, best_amt_err(csv_all[ci].amt_raw, excel_rows[ei].amt), Gen(ei, ci, ord))

\* the pairs stage 3 scores
Stage3Scored ==
    {q \in AllPairs :
        /\ q[1] \notin MatchedKeys
        /\ Len(excel_rows[q[1]].correct_cusip) >= 8
        /\ q[2] \notin matched_csv
        /\ Compat3(Upper(Take(excel_rows[q[1]].correct_cusip, 3)), Upper(Take(csv_all[q[2]].cusip, 3)))}

Stage3Keep(x) == x.total.num >= 20 /\ (x.cusip_sc >= 10 \/ x.issuer_sc >= 6)

\* Stage 3: broad fallback; "for ci in candidates" visits a set
Stage3 ==
    /\ pc = "stage3"
    /\ scored' = scored \cup Stage3Scored
    /\ \E sorted \in SetLoopSorts({x \in {Stage3Pair(q[1], q[2], Identity(Len(csv_all))) :
                                            q \in Stage3Scored} : Stage3Keep(x)}, Len(csv_all)) :
          StartGreedy(sorted, "greedy3")
    /\ UNCHANGED <<prog, OCR_PAIRS, workbook, csv_file, out_ws, deduped, excel_rows, csv_all,
                   matched, matched_csv, grp, callVars>>

amt_bonus4(amt_err) ==
    IF RLess(amt_err, Ratio(10, 100)) THEN 20
    ELSE IF RLess(amt_err, Ratio(20, 100)) THEN 10
    ELSE 0

Stage4Record(ei, ci, cusip_sc, issuer_sc, amt_err, total, gen) ==
    [ei |-> ei, ci |-> ci, total |-> total, cusip_sc |-> cusip_sc, fuzzy |-> issuer_sc,
     amt_err |-> amt_err, key |-> <<RNeg(total), amt_err>>, gen |-> gen]

\* total = cusip_sc + issuer_sc * 30 + amt_bonus
Stage4Total(ei, ci, cusip_sc, issuer_sc, amt_err, amt_bonus, gen) ==
    Stage4Record(ei, ci, cusip_sc, issuer_sc, amt_err,
                 RAdd(IntR(cusip_sc + amt_bonus), RMulInt(issuer_sc, 30)), gen)

Stage4Amt(ei, ci, amt_err, gen) ==
    Stage4Total(ei, ci, cusip_ocr_score(excel_rows[ei].correct_cusip, csv_all[ci].cusip),
                 fuzzy_issuer_score(excel_rows[ei].issuer, csv_all[ci].issuer),
                 amt_err, amt_bonus4(amt_err), gen)

Stage4Pair(ei, ci) ==
    Stage4Amt(ei, ci, best_amt_err(csv_all[ci].amt_raw, excel_rows[ei].amt),
              Gen(ei, ci, Identity(Len(csv_all))))

\* the pairs stage 4 scores
Stage4Scored ==
    {q \in AllPairs :
        /\ q[1] \notin MatchedKeys
        /\ excel_rows[q[1]].correct_cusip # <<>>
        /\ q[2] \notin matched_csv}

\* "if cusip_sc < 8: continue" and "if total >= 15"
Stage4Keep(x) == x.cusip_sc >= 8 /\ ~RLess(x.total, IntR(15))

\* Stage 4: very broad matching
Stage4 ==
    /\ pc = "stage4"
    /\ scored' = scored \cup Stage4Scored
    /\ StartGreedy(SortPairs({x \in {Stage4Pair(q[1], q[2]) : q \in Stage4Scored} : Stage4Keep(x)}),
                   "greedy4")
    /\ UNCHANGED <<prog, OCR_PAIRS, workbook, csv_file, out_ws, deduped, excel_rows, csv_all,
                   matched, matched_csv, grp, callVars>>

(***************************************************************************)
(* build_matching_v3.py                                                    *)
(***************************************************************************)
BmRecord(ei, ci, cusip_score, issuer_score, gen) ==
    [ei |-> ei, ci |-> ci, total |-> IntR(cusip_score + Min(issuer_score, 15) * 2),
     cusip_sc |-> cusip_score, issuer_sc |-> issuer_score,
     key |-> <<IntR(-(cusip_score + Min(issuer_score, 15) * 2)), IntR(-cusip_score)>>, gen |-> gen]

BmPair(ei, ci, ord) ==
    BmRecord(ei, ci, cusip_ocr_score_bm(excel_rows[ei].correct_cusip, csv_all[ci].cusip),
             issuer_prefix_match(excel_rows[ei].issuer, csv_all[ci].issuer), Gen(ei, ci, ord))

BmScored ==
    {q \in AllPairs : /\ excel_rows[q[1]].correct_cusip # <<>>
                      /\ q[2] \in Candidates(excel_rows[q[1]])}

BmKeep(x) == x.total.num >= 25 /\ (x.cusip_sc >= 12 \/ x.issuer_sc >= 8)

\* the candidate pairs, scored and sorted; "for ci in candidates" visits a set
BmPairs ==
    /\ pc = "pairs"
    /\ prog = "bm"
    /\ scored' = scored \cup BmScored
    /\ \E sorted \in SetLoopSorts({x \in {BmPair(q[1], q[2], Identity(Len(csv_all))) : q \in BmScored} :
                                        BmKeep(x)}, Len(csv_all)) :
          StartGreedy(sorted, "greedy")
    /\ UNCHANGED <<prog, OCR_PAIRS, workbook, csv_file, out_ws, deduped, excel_rows, csv_all,
                   matched, matched_csv, grp, callVars>>

(***************************************************************************)
(* test_correct_matching.py                                                *)
(***************************************************************************)
TcmRecord(ei, ci, sc, gen) ==
    [ei |-> ei, ci |-> ci, total |-> IntR(sc[1]), cusip_sc |-> sc[1], max_score |-> sc[2],
     key |-> <<IntR(-sc[1]), IntR(sc[2])>>, gen |-> gen]

TcmPair(ei, ci) ==
    TcmRecord(ei, ci, ocr_score(excel_rows[ei].correct_cusip, csv_all[ci].cusip),
              Gen(ei, ci, Identity(Len(csv_all))))

TcmScored == {q \in AllPairs : excel_rows[q[1]].correct_cusip # <<>>}

\* "max_score > 0 and score >= max_score * 0.65"
TcmKeep(x) == x.max_score > 0 /\ x.cusip_sc * 100 >= x.max_score * 65

TcmPairs ==
    /\ pc = "pairs"
    /\ prog = "tcm"
    /\ scored' = scored \cup TcmScored
    /\ StartGreedy(SortPairs({x \in {TcmPair(q[1], q[2]) : q \in TcmScored} : TcmKeep(x)}), "greedy")
    /\ UNCHANGED <<prog, OCR_PAIRS, workbook, csv_file, out_ws, deduped, excel_rows, csv_all,
                   matched, matched_csv, grp, callVars>>

(***************************************************************************)
(* The output sheet of populate_excel_v3.py and populate_excel_v4.py.  A   *)
(* cell holding None is <<>> (no cleaner returns an empty string).         *)
(***************************************************************************)
clean_text(val) == IF val = <<>> \/ Strip(val) = <<"-", "-">> THEN <<>> ELSE Strip(val)

\* a plausible slip: an unmatched row is filled from the first candidate
CandidateOf_guess(ei) ==
    IF ei \in MatchedKeys THEN {m[2] : m \in {x \in matched : x[1] = ei}}
    ELSE IF csv_all # <<>> THEN {1} ELSE {}

\* "if ei in matched: ci = matched[ei]"
CandidateOf(ei) == {m[2] : m \in {x \in matched : x[1] = ei}}

\* the cells of one output row: columns 1, 3 and 5 always; column 2 stands
\* for the enrichment columns 2, 4 and 6-20, written in one block "if p:"
OutCells(e, ps) ==
    [c1 |-> e.correct_cusip, c3 |-> e.issuer, c5 |-> e.amt,
     c2 |-> IF ps = {} THEN <<>> ELSE clean_text((CHOOSE p \in ps : TRUE).state),
     enriched |-> ps # {}]

\* a plausible slip: a matched row shows the identifier and the name the
\* OCR read
OutRow_overwrite(ei) ==
    IF CandidateOf(ei) = {} THEN OutCells(excel_rows[ei], {})
    ELSE OutCells([excel_rows[ei] EXCEPT !.correct_cusip = csv_all[CHOOSE ci \in CandidateOf(ei) : TRUE].cusip,
                                         !.issuer = csv_all[CHOOSE ci \in CandidateOf(ei) : TRUE].issuer],
                  {csv_all[ci].parsed[1] : ci \in {cj \in CandidateOf(ei) : csv_all[cj].parsed # <<>>}})

OutRow(ei) ==
    OutCells(excel_rows[ei], {csv_all[ci].parsed[1] : ci \in {cj \in CandidateOf(ei) : csv_all[cj].parsed # <<>>}})

\* "for out_row, e in enumerate(excel_rows, 2)"
Output ==
    /\ pc = "output"
    /\ out_ws' = [ei \in 1..Len(excel_rows) |-> OutRow(ei)]
    /\ pc' = "done"
    /\ UNCHANGED <<prog, OCR_PAIRS, workbook, csv_file, excel_rows, csv_all, matched, matched_csv,
                   todo, grp, scored, deduped, callVars>>

Next ==
    \/ Load
    \/ Phase1 \/ Phase2 \/ Phase3
    \/ Stage2Group \/ Stage2Assign \/ Stage3 \/ Stage4
    \/ BmPairs \/ TcmPairs
    \/ GreedyStep
    \/ Output

Spec == Init /\ [][Next]_vars


(***************************************************************************)
(* Properties of the matchers.                                             *)
(***************************************************************************)
\* C1: in every state of a run of populate_excel_v3 (phases 1-3) and of
\* populate_excel_v4 (stages 2-4) the mapping row -> candidate is injective
\* in both directions: no row is a key twice, no candidate is the value of
\* two rows.
C1_Injective ==
    prog \in {"v3", "v4"} =>
        \A m1, m2 \in matched : (m1[1] = m2[1] \/ m1[2] = m2[2]) => m1 = m2

\* a free row's pair comes up in a greedy loop when its candidate is taken
C1_Witness ==
    /\ prog \in {"v3", "v4"}
    /\ pc \in GreedyPcs
    /\ todo # <<>>
    /\ Head(todo).ei \notin MatchedKeys
    /\ Head(todo).ci \in matched_csv

\* C2: assignments are monotone: no step of any phase removes a pair from
\* the mapping or maps an assigned row to another candidate, so the set of
\* assigned rows only grows.
C2_Monotone == [][\A m \in matched : m \in matched']_vars

\* an assigned row's pair with a free candidate comes up in a greedy loop
C2_Witness ==
    /\ pc \in GreedyPcs
    /\ todo # <<>>
    /\ Head(todo).ei \in MatchedKeys
    /\ Head(todo).ci \notin matched_csv

\* a later phase is about to add a pair to the pairs of an earlier one
C2_WitnessLaterPhase ==
    /\ pc \in {"greedy2", "greedy3", "greedy4"}
    /\ matched # {}
    /\ todo # <<>>
    /\ ~Taken(Head(todo).ei, Head(todo).ci)

\* the workbook has the single row of scenario 5, a row without reference
\* code, and the csv a single row with that row's issuer and amount
EmptyCodeScenario ==
    /\ Len(workbook) = 1 /\ workbook[1].bb_id = <<>>
    /\ workbook[1].issuer = Name_Springfield /\ workbook[1].amt = 1000
    /\ Len(csv_file) = 1 /\ csv_file[1].nfields >= 10
    /\ csv_file[1].issuer = Name_SpringfieldCaps /\ csv_file[1].amt_raw = <<"1", ",", "0", "0", "0">>

\* the identifier scorer is never called for a row without reference code
C7_ScorerNeverCalled == \A q \in scored : excel_rows[q[1]].bb_id # <<>>

\* C7: for a row whose reference code is empty the identifier scorer is
\* never called, and the row can still be assigned by a name-based phase:
\* in scenario 5 populate_excel_v3 and populate_excel_v4 assign the row.
C7_EmptyCodeAssignable ==
    prog \in {"v3", "v4"} =>
        /\ C7_ScorerNeverCalled
        /\ (pc = "done" /\ EmptyCodeScenario) => matched # {}

\* what holds of it: populate_excel_v4 assigns the row of scenario 5 in
\* stage 2, populate_excel_v3 never assigns a row without reference code
C7_EmptyCodeAssignableV4 ==
    /\ C7_ScorerNeverCalled
    /\ (prog = "v4" /\ pc = "done" /\ EmptyCodeScenario) => matched # {}
    /\ prog = "v3" => \A m \in matched : excel_rows[m[1]].bb_id # <<>>

\* populate_excel_v4 has assigned a row without reference code while the
\* scorer was called for another row
C7_Witness ==
    /\ prog = "v4"
    /\ scored # {}
    /\ \E m \in matched : excel_rows[m[1]].bb_id = <<>>

Symmetric(T) == \A p \in T : <<p[2], p[1]>> \in T

\* the tables of the repository: the scripts not modelled here build one of
\* the first three
TableVariants == {OCR_PAIRS_v4, OCR_PAIRS_bm, OCR_PAIRS_tcm, OCR_PAIRS_vb}

\* C9: the confusion table is symmetric in every variant, and no step of a
\* matching run changes it.
C9_TableSymmetricAndFixed ==
    /\ [](Symmetric(OCR_PAIRS) /\ \A T \in TableVariants : Symmetric(T))
    /\ [][OCR_PAIRS' = OCR_PAIRS]_vars

\* a run has ended with a pair whose identifiers differ in a confusable
\* character
C9_Witness ==
    /\ pc = "done"
    /\ \E m \in matched :
          \E i \in 1..Min(Len(excel_rows[m[1]].correct_cusip), Len(csv_all[m[2]].cusip)) :
             /\ excel_rows[m[1]].correct_cusip[i] # csv_all[m[2]].cusip[i]
             /\ <<excel_rows[m[1]].correct_cusip[i], csv_all[m[2]].cusip[i]>> \in OCR_PAIRS

\* scenario 3: the two entities "City of Springfield" and "City of
\* Springdale" in either order, and one candidate named "City of
\* Springfield" that carries the canonical identifier of the first
Scenario3 ==
    /\ Len(workbook) = 2 /\ Len(csv_file) = 1
    /\ {workbook[1].issuer, workbook[2].issuer} = {Name_Springfield, Name_Springdale}
    /\ \A i \in 1..2 : Len(workbook[i].bb_id) = 8
    /\ csv_file[1].nfields >= 10 /\ csv_file[1].issuer = Name_Springfield
    /\ \E i \in 1..2 : /\ workbook[i].issuer = Name_Springfield
                       /\ csv_file[1].cusip = correct_cusip(workbook[i].bb_id)
    /\ \E i \in 1..2 : /\ workbook[i].issuer = Name_Springdale
                       /\ csv_file[1].cusip # correct_cusip(workbook[i].bb_id)

SpringfieldRow == CHOOSE i \in 1..Len(workbook) : workbook[i].issuer = Name_Springfield

\* C11: in scenario 3, populate_excel_v3 and build_matching_v3 have assigned
\* the candidate to "City of Springfield" once Phase 1 is over, and "City of
\* Springdale" is unmatched from then on to the end of the run.
C11_SharedPrefixNotConfused ==
    (prog \in {"v3", "bm"} /\ Scenario3
        /\ pc \in {"phase2", "greedy2", "phase3", "greedy3", "output", "done"})
        => matched = {<<SpringfieldRow, 1>>}

\* the pair of "City of Springdale" passed the floors of Phase 1 and meets
\* the candidate already taken
C11_Witness ==
    /\ prog \in {"v3", "bm"} /\ Scenario3 /\ pc \in GreedyPcs /\ Len(todo) = 1
    /\ Head(todo).ei # SpringfieldRow /\ Head(todo).ci \in matched_csv

(***************************************************************************)
(* smart_dedup_test.py: the page-boundary deduplicator.  A csv row is the  *)
(* record of its first five fields, kept as read (the loader tests the     *)
(* cleaned cusip but appends row_data itself).                              *)
(***************************************************************************)
pairs_sd == {
    <<"0","X">>, <<"0","O">>, <<"0","D">>, <<"0","Q">>,
    <<"1","I">>, <<"1","L">>, <<"1","7">>, <<"1","J">>,
    <<"3","2">>, <<"3","8">>, <<"3","5">>,
    <<"4","8">>, <<"4","A">>, <<"4","9">>,
    <<"5","S">>, <<"5","F">>, <<"5","6">>, <<"5","3">>,
    <<"6","G">>, <<"6","8">>, <<"6","A">>, <<"6","5">>,
    <<"7","T">>, <<"7","1">>,
    <<"8","B">>, <<"8","6">>, <<"8","3">>,
    <<"9","G">>, <<"9","Q">>, <<"9","4">>,
    <<"A","4">>, <<"A","6">>,
    <<"D","K">>, <<"D","H">>, <<"D","0">>,
    <<"E","F">>, <<"E","C">>,
    <<"F","5">>, <<"F","P">>,
    <<"G","6">>, <<"G","9">>, <<"G","C">>,
    <<"H","K">>, <<"H","D">>, <<"H","N">>,
    <<"J","1">>, <<"J","U">>,
    <<"K","X">>, <<"K","H">>, <<"K","D">>,
    <<"L","1">>, <<"L","I">>,
    <<"M","N">>, <<"M","W">>, <<"M","H">>,
    <<"N","M">>, <<"N","H">>,
    <<"O","0">>, <<"O","Q">>, <<"O","D">>,
    <<"P","R">>, <<"P","F">>,
    <<"Q","9">>, <<"Q","0">>, <<"Q","G">>,
    <<"R","P">>,
    <<"S","5">>,
    <<"T","7">>,
    <<"U","V">>, <<"U","J">>,
    <<"V","U">>, <<"V","W">>,
    <<"W","M">>, <<"W","V">>, <<"W","A">>,
    <<"X","K">>, <<"X","0">>,
    <<"Y","V">>,
    <<"Z","2">>}

OCR_PAIRS_sd == AddBoth(pairs_sd)

\* the ratio (exact + ocr * 0.5) / ml, "return 0" is 0/1
cusip_similarity(c1, c2) ==
    IF Min(Min(Len(c1), Len(c2)), 9) = 0 THEN IntR(0)
    ELSE Ratio(2 * Cardinality({i \in 1..Min(Min(Len(c1), Len(c2)), 9) : c1[i] = c2[i]})
                 + Cardinality({i \in 1..Min(Min(Len(c1), Len(c2)), 9) :
                                   c1[i] # c2[i] /\ <<c1[i], c2[i]>> \in OCR_PAIRS}),
               2 * Min(Min(Len(c1), Len(c2)), 9))

issuer_sim_of(a, b) ==
    IF a = <<>> \/ b = <<>> THEN IntR(0) ELSE Ratio(PrefixLen(a, b), Max(Len(a), Len(b)))

issuer_similarity(i1, i2) ==
    issuer_sim_of(Take(RStripDots(Strip(Lower(i1))), 20), Take(RStripDots(Strip(Lower(i2))), 20))

\* yield_sim in tenths: 10 for equal strings, 8 for two numbers less than
\* 0.1 apart, else 0.  The yields have at most 3 digits after the '.'.
yield_sim_of(y1, y2) ==
    IF y1 = y2 THEN 10
    ELSE IF y1 # <<>> /\ y2 # <<>>
              /\ \E v1 \in PyFloatTimes(y1, 3) : \E v2 \in PyFloatTimes(y2, 3) : Abs(v1 - v2) < 100
         THEN 8
         ELSE 0

\* cusip_sim * 0.4 + issuer_sim * 0.3 + state_match * 0.1 + yield_sim * 0.2
\* as an exact fraction, yield_sim given in tenths
composite(cusip_sim, issuer_sim, state_match, yield_sim) ==
    RAdd(RAdd(Ratio(4 * cusip_sim.num, 10 * cusip_sim.den), Ratio(3 * issuer_sim.num, 10 * issuer_sim.den)),
         Ratio(10 * state_match + 2 * yield_sim, 100))

\* every loaded row has at least 10 fields, so the len(f) tests hold; the
\* amount f[4] is not read
fields_similarity(f1, f2) ==
    composite(cusip_similarity(Strip(f1.cusip), Strip(f2.cusip)),
              issuer_similarity(f1.issuer, f2.issuer),
              IF Strip(f1.state) = Strip(f2.state) THEN 1 ELSE 0,
              yield_sim_of(Strip(f1.yield), Strip(f2.yield)))

WINDOW_SIZE == 8

DUPE_THRESHOLD == Ratio(65, 100)

\* "for j in range(start, len(deduped)): if sim >= DUPE_THRESHOLD"
\* a plausible slip: the row is compared with every kept row
is_dupe_nowindow(row, kept) ==
    \E j \in 1..Len(kept) : RLeq(DUPE_THRESHOLD, fields_similarity(row, kept[j]))

is_dupe(row, kept) ==
    \E j \in (Max(0, Len(kept) - WINDOW_SIZE) + 1)..Len(kept) :
        RLeq(DUPE_THRESHOLD, fields_similarity(row, kept[j]))

MaxDedupRows == 3

\* csv rows of the deduplicator: len(row), row[0], row[1], row[2], row[3], row[4]
DedupRowPool == {
    [nfields |-> 12, cusip |-> Cusip_AA, state |-> <<"I","L">>, issuer |-> Name_Springfield,
     yield |-> <<"1",".","0">>, amt_raw |-> <<"1",",","0","0","0">>],
    [nfields |-> 12, cusip |-> Cusip_AA, state |-> <<"I","L">>, issuer |-> Name_Springfield,
     yield |-> <<"1",".","0">>, amt_raw |-> <<"9","9","9">>],
    [nfields |-> 12, cusip |-> Cusip_AA, state |-> <<"I","L",".">>, issuer |-> Name_Springfield,
     yield |-> <<"1",".","0","5">>, amt_raw |-> <<"9","9","9">>],
    [nfields |-> 12, cusip |-> Cusip_AB_ocr, state |-> <<"C","A">>, issuer |-> Name_SpringfieldCaps,
     yield |-> <<"2">>, amt_raw |-> <<"1",",","0","0","0">>],
    [nfields |-> 12, cusip |-> Cusip_AA, state |-> <<"I","L">>, issuer |-> <<>>,
     yield |-> <<"1",",","0","0","0">>, amt_raw |-> <<"1",",","0","0","0">>],
    [nfields |-> 12, cusip |-> Cusip_AA, state |-> <<"I","L">>, issuer |-> <<>>,
     yield |-> <<"9","9","9">>, amt_raw |-> <<"9","9","9">>],
    [nfields |-> 9, cusip |-> Cusip_AA, state |-> <<"I","L">>, issuer |-> Name_Springfield,
     yield |-> <<"1",".","0">>, amt_raw |-> <<"1",",","0","0","0">>]}

\* inputs longer than the window: n rows that differ from each other in
\* every compared field, followed by copies of the first, second or last
LongChars == <<"A","B","C","D","E","F","G","H","J">>

DistinctRow(k) ==
    [nfields |-> 12, cusip |-> [i \in 1..9 |-> LongChars[k]], state |-> <<LongChars[k], LongChars[k]>>,
     issuer |-> <<LongChars[k], "x", "y">>, yield |-> <<DigitStr(k)>>, amt_raw |-> <<"1">>]

DistinctRows(n) == [k \in 1..n |-> DistinctRow(k)]

MaxTail == 2

\* and a row, WINDOW_SIZE copies of another row, and the first row again
LongInputs ==
    {DistinctRows(n) \o tail : n \in {WINDOW_SIZE, WINDOW_SIZE + 1},
                               tail \in SeqsUpTo({DistinctRow(1), DistinctRow(2), DistinctRow(WINDOW_SIZE + 1)}, MaxTail)}
    \cup {<<DistinctRow(1)>> \o [k \in 1..WINDOW_SIZE |-> DistinctRow(2)] \o <<DistinctRow(1)>>}

InitDedup ==
    /\ prog = "sd"
    /\ OCR_PAIRS = OCR_PAIRS_sd
    /\ pc = "load"
    /\ workbook = <<>>
    /\ csv_file \in SeqsUpTo(DedupRowPool, MaxDedupRows) \cup LongInputs
    /\ excel_rows = <<>> /\ csv_all = <<>>
    /\ matched = {} /\ matched_csv = {}
    /\ todo = <<>> /\ grp = 0 /\ scored = {}
    /\ out_ws = <<>> /\ deduped = <<>>
    /\ argA = <<>> /\ argB = <<>> /\ nedit = 0 /\ ret = NoCall

\* the csv loop: csv_rows.append(row_data) for the rows that pass the filter
DedupLoad ==
    /\ prog = "sd" /\ pc = "load"
    /\ csv_all' = SelectSeq(csv_file, RowAccepted)
    /\ todo' = SelectSeq(csv_file, RowAccepted)
    /\ pc' = IF SelectSeq(csv_file, RowAccepted) = <<>> THEN "done" ELSE "dedup"
    /\ UNCHANGED <<prog, OCR_PAIRS, workbook, csv_file, excel_rows, matched, matched_csv, grp,
                   scored, out_ws, deduped, callVars>>

\* a plausible slip: the window runs over the rows read, not the rows kept
DedupStep_inputwindow ==
    /\ prog = "sd" /\ pc = "dedup"
    /\ todo # <<>>
    /\ deduped' = IF \E j \in (Max(0, Len(csv_all) - Len(todo) - WINDOW_SIZE) + 1)..(Len(csv_all) - Len(todo)) :
                        RLeq(DUPE_THRESHOLD, fields_similarity(Head(todo), csv_all[j]))
                  THEN deduped ELSE Append(deduped, Head(todo))
    /\ todo' = Tail(todo)
    /\ pc' = IF Tail(todo) = <<>> THEN "done" ELSE "dedup"
    /\ UNCHANGED <<prog, OCR_PAIRS, workbook, csv_file, excel_rows, csv_all, matched, matched_csv,
                   grp, scored, out_ws, callVars>>

\* one pass of "for i, row in enumerate(csv_rows)"
DedupStep ==
    /\ prog = "sd" /\ pc = "dedup"
    /\ todo # <<>>
    /\ deduped' = IF is_dupe(Head(todo), deduped) THEN deduped ELSE Append(deduped, Head(todo))
    /\ todo' = Tail(todo)
    /\ pc' = IF Tail(todo) = <<>> THEN "done" ELSE "dedup"
    /\ UNCHANGED <<prog, OCR_PAIRS, workbook, csv_file, excel_rows, csv_all, matched, matched_csv,
                   grp, scored, out_ws, callVars>>

NextDedup == DedupLoad \/ DedupStep

SpecDedup == InitDedup /\ [][NextDedup]_vars

(***************************************************************************)
(* Properties of the deduplicator.                                         *)
(***************************************************************************)
\* scenario 4: three consecutive rows with the same identifier and the same
\* name and the amounts "1,000", "1,000", "999"
Scenario4 ==
    /\ Len(csv_all) = 3
    /\ \A i \in 2..3 : csv_all[i].cusip = csv_all[1].cusip /\ csv_all[i].issuer = csv_all[1].issuer
    /\ csv_all[1].amt_raw = <<"1",",","0","0","0">> /\ csv_all[2].amt_raw = <<"1",",","0","0","0">>
    /\ csv_all[3].amt_raw = <<"9","9","9">>

AmountSeeds == {<<"1",",","0","0","0">>, <<"9","9","9">>, <<"1">>, <<"-","-">>, <<>>}

Clears(row, kept) == RLeq(DUPE_THRESHOLD, fields_similarity(row, kept))

\* the two outcomes of scenario 4, by the composite similarity of the rows
\* to the first one
RetainsByComposite ==
    /\ (Clears(csv_all[2], csv_all[1]) /\ Clears(csv_all[3], csv_all[1]))
          => deduped = <<csv_all[1]>>
    /\ (Clears(csv_all[2], csv_all[1]) /\ ~Clears(csv_all[3], csv_all[1]))
          => deduped = <<csv_all[1], csv_all[3]>>

\* C12: the deduplicator's decision depends on amount closeness: in
\* scenario 4 it retains exactly the first row when the composite
\* similarity clears the threshold for all three rows, retains two rows
\* when the third row's composite similarity is below the threshold, and
\* the amount of the third row is a term of that composite similarity.
C12_AmountDecides ==
    (prog = "sd" /\ pc = "done" /\ Scenario4) =>
        /\ RetainsByComposite
        /\ \E amt \in AmountSeeds :
              fields_similarity([csv_all[3] EXCEPT !.amt_raw = amt], csv_all[1])
                  # fields_similarity(csv_all[3], csv_all[1])

\* what holds of it: the outcome follows the composite similarity, which is
\* the same whatever the amount of the third row
C12_AmountIgnored ==
    (prog = "sd" /\ pc = "done" /\ Scenario4) =>
        /\ RetainsByComposite
        /\ \A amt \in AmountSeeds :
              fields_similarity([csv_all[3] EXCEPT !.amt_raw = amt], csv_all[1])
                  = fields_similarity(csv_all[3], csv_all[1])

\* scenario 4 ended with one row kept; scenario 4 ended with two rows kept
C12_WitnessOne == prog = "sd" /\ pc = "done" /\ Scenario4 /\ Len(deduped) = 1

C12_WitnessTwo == prog = "sd" /\ pc = "done" /\ Scenario4 /\ Len(deduped) = 2

(***************************************************************************)
(* C13                                                                     *)
(***************************************************************************)
GroundTruthOnly(e, cells) ==
    /\ cells.c1 = e.correct_cusip /\ cells.c3 = e.issuer /\ cells.c5 = e.amt
    /\ cells.c2 = <<>> /\ ~cells.enriched

\* C13: when populate_excel_v3/v4 has written its sheet, every entity that
\* has no assignment holds its ground-truth identifier, issuer and amount
\* and nothing else: no enrichment cell of its row is filled from a candidate.
C13_UnmatchedGroundTruthOnly ==
    (prog \in {"v3", "v4"} /\ pc = "done")
        => \A ei \in (1..Len(excel_rows)) \ MatchedKeys : GroundTruthOnly(excel_rows[ei], out_ws[ei])

\* an entity is left unmatched although the file holds a candidate
\* nobody took, while another entity's row was enriched
C13_Witness ==
    /\ prog \in {"v3", "v4"} /\ pc = "done"
    /\ \E ei \in 1..Len(excel_rows) : ei \notin MatchedKeys
    /\ \E ci \in 1..Len(csv_all) : ci \notin matched_csv /\ csv_all[ci].parsed # <<>>
    /\ \E ei \in 1..Len(excel_rows) : out_ws[ei].enriched /\ out_ws[ei].c2 # <<>>

(***************************************************************************)
(* C14                                                                     *)
(***************************************************************************)
\* the floor of the phase whose loop is running, on the scores of (e, c)
Phase1Floor(cusip_sc, issuer_sc) ==
    cusip_sc + Min(issuer_sc, 15) * 2 >= 25 /\ (cusip_sc >= 12 \/ issuer_sc >= 8)

Phase2Floor(cusip_sc, prefix_sc, fuzzy) ==
    RLeq(Ratio(35, 100), fuzzy) /\ cusip_sc + prefix_sc * 2 >= 15

Phase3Floor(fuzzy) == RLeq(Ratio(3, 10), fuzzy)

FloorAt(at, e, c) ==
    CASE at = "greedy1" -> Phase1Floor(cusip_ocr_score(e.correct_cusip, c.cusip),
                                       issuer_prefix_match(e.issuer, c.issuer))
      [] at = "greedy2" -> Phase2Floor(cusip_ocr_score(e.correct_cusip, c.cusip),
                                       issuer_prefix_match(e.issuer, c.issuer),
                                       fuzzy_issuer_score(e.issuer, c.issuer))
      [] at = "greedy3" -> Phase3Floor(fuzzy_issuer_score(e.issuer, c.issuer))

\* C14: in populate_excel_v3 every pair an assignment loop adds clears the
\* floor of its phase (Phase 1: total >= 25 and identifier score >= 12 or
\* prefix score >= 8; Phase 2: name ratio >= 0.35 and total >= 15; Phase 3:
\* name ratio >= 0.3), so a pair below the floor is never assigned.
C14_FloorsAreHard ==
    [][(prog = "v3" /\ matched' # matched)
          => \A m \in matched' \ matched : FloorAt(pc, excel_rows[m[1]], csv_all[m[2]])]_vars

\* the run is over, a row with a canonical identifier is unmatched and a
\* free candidate is left for it whose name ratio is above 0 and below 0.3
C14_Witness ==
    /\ prog = "v3" /\ pc = "done" /\ matched # {}
    /\ \E ei \in 1..Len(excel_rows), ci \in 1..Len(csv_all) :
          /\ ei \notin MatchedKeys /\ ci \notin matched_csv
          /\ excel_rows[ei].correct_cusip # <<>>
          /\ RLess(IntR(0), fuzzy_issuer_score(excel_rows[ei].issuer, csv_all[ci].issuer))
          /\ ~Phase3Floor(fuzzy_issuer_score(excel_rows[ei].issuer, csv_all[ci].issuer))

(***************************************************************************)
(* C15                                                                     *)
(***************************************************************************)
\* two entries of the pool read from equal source rows
Copies(ci, cj) ==
    /\ ci # cj
    /\ csv_all[ci].cusip = csv_all[cj].cusip
    /\ csv_all[ci].issuer = csv_all[cj].issuer
    /\ csv_all[ci].amt_raw = csv_all[cj].amt_raw
    /\ csv_all[ci].parsed = csv_all[cj].parsed

\* C15: when populate_excel_v3 has finished, of two candidates that are
\* copies of one record at most one is assigned to an entity.
C15_OneCopyAssigned ==
    (prog = "v3" /\ pc = "done")
        => \A ci, cj \in 1..Len(csv_all) :
              Copies(ci, cj) => ~(ci \in matched_csv /\ cj \in matched_csv)

\* every assignment is still one-to-one when both copies are taken
C15_CopiesGoToDistinctEntities ==
    (prog = "v3" /\ pc = "done")
        => \A m1, m2 \in matched : (m1[1] = m2[1]) = (m1[2] = m2[2])

C15_Witness ==
    /\ prog = "v3" /\ pc = "done"
    /\ \E ci, cj \in 1..Len(csv_all) : Copies(ci, cj) /\ ci \in matched_csv /\ cj \notin matched_csv

(***************************************************************************)
(* Extraction: populate_excel.py is_data_row and the row filter of the     *)
(* csv loop of populate_excel_v4.py, called on one csv row.                *)
(***************************************************************************)
\* clean_cusip: strip, cut 'TH ', strip again
clean_cusip(val) ==
    IF StartsWith(Strip(val), <<"T", "H", " ">>) THEN Strip(Drop(Strip(val), 3)) ELSE Strip(val)

\* all(f.strip() == '--' for f in fields[:5]), on the fields a row carries
AllDashes(fields) ==
    /\ Strip(fields.cusip) = <<"-", "-">> /\ Strip(fields.state) = <<"-", "-">>
    /\ Strip(fields.issuer) = <<"-", "-">> /\ Strip(fields.amt_raw) = <<"-", "-">>

is_data_row(fields) ==
    IF fields.nfields < 16 THEN FALSE
    ELSE IF clean_cusip(fields.cusip) = <<>> \/ clean_cusip(fields.cusip) = <<"-", "-">> THEN FALSE
    ELSE IF Len(clean_cusip(fields.cusip)) < 4 \/ Len(clean_cusip(fields.cusip)) > 14 THEN FALSE
    ELSE IF ~CusipPattern(clean_cusip(fields.cusip)) THEN FALSE
    ELSE IF AllDashes(fields) THEN FALSE
    ELSE TRUE

MaxRowEdits == 2

IdSeeds == {<<>>, <<"-", "-">>, <<"2","3","7">>, <<"2","3","7","1">>, Cusip_AA,
            <<"2","3","7","1","9","0","A","A","1","/","0","0","1">>,
            <<"2","3","7","1","9","0","A","A","1","/","0","0","1","2">>}

IdEditChars == {"7", "B", "/", "-", " "}

ExtractProgs == {"pe", "v4"}

InitExtract ==
    /\ prog \in ExtractProgs
    /\ OCR_PAIRS = IF prog = "pe" THEN {} ELSE TableOf(prog)
    /\ IdleMatcher
    /\ argA \in {[nfields |-> n, cusip |-> id, state |-> <<"I","L">>, issuer |-> Name_Springfield,
                  amt_raw |-> <<"1">>, bics |-> TRUE] : n \in {9, 10, 15, 16}, id \in IdSeeds}
    /\ argB = <<>>
    /\ nedit = 0
    /\ ret = NoCall

\* the OCR reads one more character at the end of the identifier field
AppendIdChar ==
    /\ ret.fn = "none" /\ nedit < MaxRowEdits
    /\ \E ch \in IdEditChars : argA' = [argA EXCEPT !.cusip = Append(@, ch)]
    /\ nedit' = nedit + 1
    /\ UNCHANGED <<prog, OCR_PAIRS, matcherVars, argB, ret>>

\* the OCR puts the junk 'TH ' or a blank in front of the identifier field
PrependJunk ==
    /\ ret.fn = "none" /\ nedit < MaxRowEdits
    /\ \E junk \in {<<"T", "H", " ">>, <<" ">>} : argA' = [argA EXCEPT !.cusip = junk \o @]
    /\ nedit' = nedit + 1
    /\ UNCHANGED <<prog, OCR_PAIRS, matcherVars, argB, ret>>

\* populate_excel.py: the row is kept when is_data_row holds, under the
\* identifier clean_cusip gives
CallIsDataRow ==
    /\ ret.fn = "none" /\ prog = "pe"
    /\ ret' = [fn |-> "is_data_row", in |-> <<argA>>,
               val |-> [kept |-> is_data_row(argA), cusip |-> clean_cusip(argA.cusip)], prev |-> <<>>]
    /\ UNCHANGED <<prog, OCR_PAIRS, matcherVars, argA, argB, nedit>>

\* populate_excel_v4.py: the row is appended to csv_all when the filter of
\* the csv loop holds, under the identifier the loop has cut
CallRowAccepted ==
    /\ ret.fn = "none" /\ prog = "v4"
    /\ ret' = [fn |-> "csv_loop", in |-> <<argA>>,
               val |-> [kept |-> RowAccepted(argA), cusip |-> LoadedCusip(argA)], prev |-> <<>>]
    /\ UNCHANGED <<prog, OCR_PAIRS, matcherVars, argA, argB, nedit>>

NextExtract == AppendIdChar \/ PrependJunk \/ CallIsDataRow \/ CallRowAccepted

SpecExtract == InitExtract /\ [][NextExtract]_vars

(***************************************************************************)
(* C16                                                                     *)
(***************************************************************************)
IdentifierShape(cusip) ==
    /\ cusip # <<>> /\ cusip # <<"-", "-">>
    /\ Len(cusip) >= 4 /\ Len(cusip) <= 14
    /\ CusipPattern(cusip)

\* C16: a row kept at extraction, by is_data_row or by the csv loop of
\* populate_excel_v4, has an identifier (after the junk prefix "TH " is
\* cut) that is non-empty, is not "--", has 4 to 14 characters and holds
\* only letters, digits and '/'.
C16_PoolIdentifierShape ==
    (ret.fn \in {"is_data_row", "csv_loop"} /\ ret.val.kept) => IdentifierShape(ret.val.cusip)

\* the part of C16 that is_data_row meets
C16_IsDataRowShape ==
    (ret.fn = "is_data_row" /\ ret.val.kept) => IdentifierShape(ret.val.cusip)

\* the part of C16 the csv loop meets: everything but the upper length
C16_CsvLoopShape ==
    (ret.fn = "csv_loop" /\ ret.val.kept)
        => /\ Len(ret.val.cusip) >= 4 /\ CusipPattern(ret.val.cusip)
           /\ ret.val.cusip # <<"-", "-">>

C16_IsDataRowRejects15 ==
    ret.fn = "is_data_row" /\ ~ret.val.kept /\ ret.in[1].nfields = 16
        /\ Len(clean_cusip(ret.in[1].cusip)) = 15 /\ CusipPattern(clean_cusip(ret.in[1].cusip))

(***************************************************************************)
(* C17                                                                     *)
(***************************************************************************)
\* the candidates whose row parse_csv_row has rejected
RejectedByParser == {ci \in 1..Len(csv_all) : csv_all[ci].parsed = <<>>}

\* C17: in populate_excel_v4 a row for which parse_csv_row returns None is
\* not in the candidate pool: the identifier scorer is never called on it
\* and it is never assigned to an entity.
C17_RejectedRowExcluded ==
    prog = "v4" => \A ci \in RejectedByParser :
                      ci \notin matched_csv /\ \A q \in scored : q[2] # ci

\* what the code does for such a row: its output row is not enriched
C17_RejectedRowNotEnriching ==
    (prog = "v4" /\ pc = "done")
        => \A m \in matched : m[2] \in RejectedByParser => ~out_ws[m[1]].enriched

C17_AssignedAndWritten ==
    prog = "v4" /\ pc = "done" /\ \E m \in matched : m[2] \in RejectedByParser

(***************************************************************************)
(* C18                                                                     *)
(***************************************************************************)
Free(ei, ci) == ei \notin MatchedKeys /\ ci \notin matched_csv

\* the pairs each phase of populate_excel_v3 would put on its list in the
\* present state and its loop would find free; the loop adds the first
Phase1WouldAdd ==
    {q \in Phase1Scored : Free(q[1], q[2]) /\ Phase1Keep(Phase1Pair(q[1], q[2], Identity(Len(csv_all))))}

Phase2WouldAdd == {q \in Phase2Scored : Phase2Keep(Phase2Pair(q[1], q[2]))}

Phase3WouldAdd == Phase3Pairs({Phase3Pair(q[1], q[2]) : q \in Phase3Scored})

\* C18: when populate_excel_v3 has stopped, every entity is assigned or
\* none of its three phases, applied again to the final state, adds a pair.
C18_FixpointAtEnd ==
    (prog = "v3" /\ pc = "done")
        => \/ MatchedKeys = 1..Len(excel_rows)
           \/ Phase1WouldAdd = {} /\ Phase2WouldAdd = {} /\ Phase3WouldAdd = {}

\* the first two phases are at a fixpoint at the end of the run
C18_Phase12Fixpoint ==
    (prog = "v3" /\ pc = "done") => Phase1WouldAdd = {} /\ Phase2WouldAdd = {}

C18_SomeEntityLeft ==
    prog = "v3" /\ pc = "done" /\ MatchedKeys # 1..Len(excel_rows) /\ matched # {}
        /\ Phase3WouldAdd = {}

(***************************************************************************)
(* C19                                                                     *)
(***************************************************************************)
\* the assignment loop run over a whole list, starting from the mapping m
RECURSIVE GreedyFold(_, _)
GreedyFold(list, m) ==
    IF list = <<>> THEN m
    ELSE IF \E x \in m : x[1] = Head(list).ei \/ x[2] = Head(list).ci
         THEN GreedyFold(Tail(list), m)
         ELSE GreedyFold(Tail(list), m \cup {<<Head(list).ei, Head(list).ci>>})

\* the sorted Phase-1 lists of populate_excel_v3, one for each order in
\* which "for ci in candidates" can visit the candidate set
Phase1Lists ==
    SetLoopSorts({x \in {Phase1Pair(q[1], q[2], Identity(Len(csv_all))) : q \in Phase1Scored} :
                     Phase1Keep(x)}, Len(csv_all))

\* C19: matching is deterministic and does not depend on the order in which
\* an entity's candidate set is enumerated: whatever that order, the
\* assignment loop of Phase 1 of populate_excel_v3 yields the same mapping
\* (a mapping no later phase changes, pairs are only added).
C19_EnumerationOrderIrrelevant ==
    (prog = "v3" /\ pc = "phase1")
        => Cardinality({GreedyFold(list, {}) : list \in Phase1Lists}) = 1

\* pairs are never removed or replaced, so mappings that differ after
\* Phase 1 differ at the end
C19_MappingOnlyGrows == [][matched \subseteq matched']_vars

\* the loop steps of the run yield one of the mappings above
C19_RunFollowsFold ==
    (prog = "v3" /\ pc = "phase2") => matched \in {GreedyFold(list, {}) : list \in Phase1Lists}

\* for one enumeration order the outcome is fixed: with equal sort keys the
\* pair generated first is first in the list (stable sort)
C19_StableFirstSeen ==
    (prog = "v3" /\ pc = "greedy1")
        => \A i, j \in 1..Len(todo) :
              (i < j /\ ~KeyLess(todo[i].key, todo[j].key)) =>
                  (~KeyLess(todo[j].key, todo[i].key) /\ todo[i].gen < todo[j].gen)

C19_TieReached ==
    prog = "v3" /\ pc = "greedy1" /\ Len(todo) >= 2 /\ ~KeyLess(todo[1].key, todo[2].key)

(***************************************************************************)
(* C20                                                                     *)
(***************************************************************************)
\* C20: the sheet populate_excel_v3/v4 writes has one row per entity, in
\* the order of the workbook, and in every row, matched or not, the
\* identifier is the canonical identifier derived from the entity's
\* reference code and the name and the amount are the entity's own.
C20_GroundTruthKept ==
    (prog \in {"v3", "v4"} /\ pc = "done")
        => /\ Len(out_ws) = Len(workbook)
           /\ \A i \in 1..Len(workbook) :
                 /\ out_ws[i].c1 = correct_cusip(workbook[i].bb_id)
                 /\ out_ws[i].c3 = excel_rows[i].issuer /\ out_ws[i].c3 = Strip(workbook[i].issuer)
                 /\ out_ws[i].c5 = workbook[i].amt

\* two rows are written, one of them enriched from a candidate whose
\* identifier and name differ from the entity's
C20_Witness ==
    /\ prog \in {"v3", "v4"} /\ pc = "done" /\ Len(out_ws) >= 2
    /\ \E m \in matched :
          /\ out_ws[m[1]].enriched
          /\ csv_all[m[2]].cusip # excel_rows[m[1]].correct_cusip
          /\ csv_all[m[2]].issuer # excel_rows[m[1]].issuer
    /\ \E i \in 1..Len(out_ws) : i \notin MatchedKeys

(***************************************************************************)
(* C21                                                                     *)
(***************************************************************************)
\* C21: in every state of a matcher run the set of used candidates is
\* exactly the set of candidates the mapping holds, and the two have the
\* same size: no candidate is marked used without an entity holding it.
C21_UsedAreTheValues ==
    /\ matched_csv = {m[2] : m \in matched}
    /\ Cardinality(matched_csv) = Cardinality(matched)

\* an assignment loop has added a second pair, after skipping a pair
C21_Witness ==
    /\ pc \in GreedyPcs \cup {"assign2"} /\ Cardinality(matched) = 2
    /\ Cardinality(scored) > 2

(***************************************************************************)
(* C22                                                                     *)
(***************************************************************************)
\* the pairs that survive the floors of Phase 1 of populate_excel_v3, or of
\* the one phase of build_matching_v3
SurvivingPairs ==
    IF prog = "v3"
    THEN {x \in {Phase1Pair(q[1], q[2], Identity(Len(csv_all))) : q \in Phase1Scored} : Phase1Keep(x)}
    ELSE {x \in {BmPair(q[1], q[2], Identity(Len(csv_all))) : q \in BmScored} : BmKeep(x)}

\* x was skipped because of an assigned pair that sorts no later than x
BlockedBy(x, pairs) ==
    \E y \in pairs : /\ <<y.ei, y.ci>> \in matched
                     /\ y.ei = x.ei \/ y.ci = x.ci
                     /\ ~KeyLess(x.key, y.key)

\* C22: the assignment loops of populate_excel_v3 and build_matching_v3
\* visit the surviving pairs in descending combined score; when Phase 1 is
\* over every surviving pair is assigned or has its entity or candidate
\* held by an assigned pair that sorts no later, so no surviving pair has
\* both its entity and its candidate free.
C22_GreedyIsMaximal ==
    /\ (prog \in {"v3", "bm"} /\ pc \in GreedyPcs)
          => \A i, j \in 1..Len(todo) : i < j => ~RLess(todo[i].total, todo[j].total)
    /\ ((prog = "v3" /\ pc = "phase2") \/ (prog = "bm" /\ pc = "done"))
          => \A x \in SurvivingPairs :
                /\ <<x.ei, x.ci>> \in matched \/ BlockedBy(x, SurvivingPairs)
                /\ ~(x.ei \notin MatchedKeys /\ x.ci \notin matched_csv)

\* Phase 1 is over and a surviving pair of lower score was skipped
C22_Witness ==
    /\ (prog = "v3" /\ pc = "phase2") \/ (prog = "bm" /\ pc = "done")
    /\ \E x, y \in SurvivingPairs :
          /\ <<x.ei, x.ci>> \notin matched /\ <<y.ei, y.ci>> \in matched
          /\ RLess(x.total, y.total)

(***************************************************************************)
(* The same programs on another family of inputs: candidates that tie in  *)
(* Phase 2 of populate_excel_v3.py, and a name group of two entities with  *)
(* different amounts for stage 2 of populate_excel_v4.py.                  *)
(***************************************************************************)
Name_TieA == <<"C","i","X","y"," ","o","f"," ","S","p","r","X","X","X","X","X","X","X","X">>

Name_TieB == <<"C","i","t","y"," ","X","f"," ","S","p","r","i","n","g","f","i","e","l","d">>

TieRowPool == {
    [nfields |-> 12, cusip |-> <<"2","3","7","1","X","X","X","X","X">>, state |-> <<"I","L">>,
     issuer |-> Name_TieA, amt_raw |-> <<"1">>, bics |-> TRUE],
    [nfields |-> 12, cusip |-> <<"2","3","X","X","X","X","X","X","X">>, state |-> <<"I","L">>,
     issuer |-> Name_TieB, amt_raw |-> <<"1">>, bics |-> TRUE],
    [nfields |-> 12, cusip |-> Cusip_AA, state |-> <<"I","L">>, issuer |-> Name_SpringfieldCaps,
     amt_raw |-> <<"1",",","0","0","0">>, bics |-> TRUE],
    [nfields |-> 12, cusip |-> Cusip_AB_ocr, state |-> <<"I","L">>, issuer |-> Name_SpringfieldCaps,
     amt_raw |-> <<"9",",","0","0","0">>, bics |-> TRUE],
    [nfields |-> 12, cusip |-> <<"/","/">> \o Cusip_AA, state |-> <<"I","L">>,
     issuer |-> Name_TownSpringdale, amt_raw |-> <<"1",",","0","0","0">>, bics |-> TRUE]}

TieEntityPool == {
    [bb_id |-> <<"2","3","7","1","9","0","A","A">>, issuer |-> Name_Springfield, amt |-> 1000],
    [bb_id |-> <<"2","3","7","1","9","0","A","B">>, issuer |-> Name_Springdale, amt |-> 2000],
    [bb_id |-> <<"2","3","7","1","9","0","A","B">>, issuer |-> Name_Springfield, amt |-> 2000]}

InitTies ==
    /\ prog \in Progs
    /\ OCR_PAIRS = TableOf(prog)
    /\ pc = "load"
    /\ workbook \in SeqsUpTo(TieEntityPool, MaxEnt)
    /\ csv_file \in SeqsUpTo(TieRowPool, MaxCand)
    /\ excel_rows = <<>> /\ csv_all = <<>>
    /\ matched = {} /\ matched_csv = {}
    /\ todo = <<>> /\ grp = 0 /\ scored = {}
    /\ out_ws = <<>> /\ deduped = <<>>
    /\ argA = <<>> /\ argB = <<>> /\ nedit = 0 /\ ret = NoCall

SpecTies == InitTies /\ [][Next]_vars

(***************************************************************************)
(* C23                                                                     *)
(***************************************************************************)
\* the pairs Phase 2 puts on its list
Phase2Kept == {x \in {Phase2Pair(q[1], q[2]) : q \in Phase2Scored} : Phase2Keep(x)}

\* a Phase-2 pair scored and keyed as Phase 1 scores and keys its pairs
AsPhase1(x) == Phase1Record(x.ei, x.ci, x.cusip_sc, x.issuer_sc, x.gen)

PairsOf(list) == [i \in 1..Len(list) |-> <<list[i].ei, list[i].ci>>]

\* C23: Phase 2 of populate_excel_v3 treats its pairs as Phase 1 does, with
\* the combined score identifier score + 2 x min(prefix score, 15), and
\* differs only in the pool (free candidates behind the name-ratio filter)
\* and in the floor: its list is the list Phase 1's scoring and ordering
\* give on that pool with the floor 15.
C23_Phase2LikePhase1 ==
    (prog = "v3" /\ pc = "phase2")
        => /\ \A x \in Phase2Kept : x.total = AsPhase1(x).total
           /\ PairsOf(SortPairs(Phase2Kept)) = PairsOf(SortPairs({AsPhase1(x) : x \in Phase2Kept}))

\* the part that holds: on every pair Phase 2 scores, its total
\* cusip_sc + prefix_sc * 2 equals identifier score + 2 x min(prefix, 15),
\* and the pool is the free candidates whose name ratio is at least 0.35
C23_SameTotalOnPool ==
    (prog = "v3" /\ pc = "phase2")
        => /\ \A x \in Phase2Kept : x.total = AsPhase1(x).total /\ x.total.num >= 15
           /\ \A q \in Phase2Scored :
                 /\ q[1] \notin MatchedKeys /\ q[2] \notin matched_csv
                 /\ RLeq(Ratio(35, 100), fuzzy_issuer_score(excel_rows[q[1]].issuer, csv_all[q[2]].issuer))

C23_Phase2ScoresPair == prog = "v3" /\ pc = "phase2" /\ Cardinality(Phase2Kept) >= 2

(***************************************************************************)
(* C24                                                                     *)
(***************************************************************************)
\* the positions of the last 8 kept rows
LastW(kept) == {j \in 1..Len(kept) : j > Len(kept) - 8}

SimilarTo(row, old) == RLeq(Ratio(65, 100), fields_similarity(row, old))

\* C24: the deduplicator discards a row if and only if its composite
\* similarity to one of the last 8 kept rows is at least 0.65; so every
\* kept row is below 0.65 against each of the up to 8 kept rows before it,
\* and the first row read is always kept.
C24_DiscardIffSimilarInWindow ==
    /\ [][(prog = "sd" /\ pc = "dedup")
             => /\ (deduped' = deduped) <=> (\E j \in LastW(deduped) : SimilarTo(Head(todo), deduped[j]))
                /\ deduped' \in {deduped, Append(deduped, Head(todo))}]_vars
    /\ [](prog = "sd" =>
             \A i \in 1..Len(deduped) :
                \A j \in 1..(i - 1) : j >= i - 8 => ~SimilarTo(deduped[i], deduped[j]))
    /\ []((prog = "sd" /\ pc = "done" /\ csv_all # <<>>) => (deduped # <<>> /\ deduped[1] = csv_all[1]))

\* a copy of a row that has left the window was kept, and a copy of a row
\* inside the window was discarded
C24_Witness ==
    /\ prog = "sd" /\ pc = "done"
    /\ Len(deduped) >= 10 /\ deduped[10] = deduped[1]
    /\ Len(csv_all) > Len(deduped)

(***************************************************************************)
(* C25                                                                     *)
(***************************************************************************)
\* the maximum the claim states for a candidate of length clen
StatedMax(clen) ==
    IF clen \in {9, 10} THEN 27 ELSE IF clen = 8 THEN 24 ELSE 3 * Min(9, clen)

\* C25: the max_possible ocr_score returns is 27 for a candidate of length
\* 9 or 10, 24 for length 8 and 3 x min(9, length) otherwise, whatever the
\* raw score is.
C25_MaxPossible ==
    ret.fn = "ocr_score" => ret.val[2] = StatedMax(Len(ret.in[2]))

\* what the code returns: the stated maximum except for a candidate of
\* length 10 none of whose ten removals scores above 0, where it returns 0
C25_MaxPossibleButZeroTen ==
    ret.fn = "ocr_score" =>
        ret.val[2] = IF Len(ret.in[2]) = 10 /\ ret.val[1] = 0 THEN 0 ELSE StatedMax(Len(ret.in[2]))

C25_TenWithScore == ret.fn = "ocr_score" /\ Len(ret.in[2]) = 10 /\ ret.val[1] > 0 /\ ret.val[2] = 27

(***************************************************************************)
(* C26                                                                     *)
(***************************************************************************)
\* the reference scorer of the claim
RefPosition(x, y) ==
    IF x = y THEN 3
    ELSE IF upper(x) = upper(y) THEN 2
    ELSE IF <<x, y>> \in OCR_PAIRS THEN 1
    ELSE 0

RECURSIVE RefSum(_, _)
RefSum(a, b) ==
    IF a = <<>> \/ b = <<>> THEN 0 ELSE RefPosition(Head(a), Head(b)) + RefSum(Tail(a), Tail(b))

ReferenceScore(canon, cand) ==
    CASE Len(cand) = 9 -> RefSum(canon, cand)
      [] Len(cand) = 8 -> RefSum(Take(canon, 8), cand)
      [] Len(cand) = 7 -> RefSum(Take(canon, 7), cand)
      [] Len(cand) = 10 -> SetMax({RefSum(canon, RemoveAt(cand, skip)) : skip \in 0..9})
      [] OTHER -> RefSum(Take(canon, Min(9, Len(cand))), Take(cand, Min(9, Len(cand))))

\* C26: for every canonical identifier and candidate string,
\* cusip_ocr_score (populate_excel_v4, build_matching_v3) equals the
\* reference scorer: 3/2/1/0 per position, summed over the alignment the
\* candidate's length selects; every length other than 7 to 10 is scored
\* on the overlapping prefix of min(9, length) characters.
C26_EqualsReference ==
    ret.fn = "cusip_ocr_score" => ret.val = ReferenceScore(ret.in[1], ret.in[2])

\* the part that holds: build_matching_v3 always, populate_excel_v4 for
\* every candidate whose length is not 11 or 12
C26_EqualsReferenceBut1112 ==
    (ret.fn = "cusip_ocr_score" /\ (prog = "bm" \/ Len(ret.in[2]) \notin {11, 12}))
        => ret.val = ReferenceScore(ret.in[1], ret.in[2])

C26_BmPrefixOnEleven ==
    ret.fn = "cusip_ocr_score" /\ prog = "bm" /\ Len(ret.in[2]) = 11 /\ ret.val > 0 /\ ret.val < 27

(***************************************************************************)
(* C27                                                                     *)
(***************************************************************************)
\* the names that key excel_groups, and the groups a candidate is listed in
GroupNames == {g.issuer : g \in excel_groups}

GroupsOf(ci) == {issuer \in GroupNames : ci \in issuer_csv_map(issuer)}

\* C27: after Stage 1 of populate_excel_v4 every candidate is in the list
\* of exactly one entity name group, the one with the longest common
\* prefix, and the entity groups partition the entities.
C27_ExactlyOneGroup ==
    (prog = "v4" /\ pc = "stage2")
        => /\ \A ci \in 1..Len(csv_all) :
                 /\ Cardinality(GroupsOf(ci)) = 1
                 /\ \A issuer \in GroupsOf(ci), other \in GroupNames :
                       Stage1PrefixLen(other, csv_all[ci]) <= Stage1PrefixLen(issuer, csv_all[ci])
           /\ \A ei \in 1..Len(excel_rows) :
                 Cardinality({g \in excel_groups : ei \in g.ei_list}) = 1

\* the part that holds: at most one group, that of the longest prefix, and
\* none when the longest prefix is shorter than 8
C27_AtMostOneGroup ==
    (prog = "v4" /\ pc = "stage2")
        => /\ \A ci \in 1..Len(csv_all) :
                 /\ Cardinality(GroupsOf(ci)) <= 1
                 /\ \A issuer \in GroupsOf(ci), other \in GroupNames :
                       Stage1PrefixLen(other, csv_all[ci]) <= Stage1PrefixLen(issuer, csv_all[ci])
                 /\ (GroupsOf(ci) = {}) = (\A other \in GroupNames : Stage1PrefixLen(other, csv_all[ci]) < 8)
           /\ \A ei \in 1..Len(excel_rows) :
                 Cardinality({g \in excel_groups : ei \in g.ei_list}) = 1

C27_TwoGroupsOneCandidateEach ==
    prog = "v4" /\ pc = "stage2" /\ Cardinality(GroupNames) = 2
        /\ \A issuer \in GroupNames : issuer_csv_map(issuer) # {}

(***************************************************************************)
(* C28                                                                     *)
(***************************************************************************)
\* the one-to-one sets of k pairs between the entities eis and the
\* candidates cis
OneToOne(eis, cis, k) ==
    {B \in SUBSET (eis \X cis) :
        /\ Cardinality(B) = k
        /\ \A a, b \in B : (a[1] = b[1]) = (a[2] = b[2])}

RECURSIVE SumCost(_)
SumCost(B) ==
    IF B = {} THEN IntR(0)
    ELSE RAdd(Cost((CHOOSE a \in B : TRUE)[1], (CHOOSE a \in B : TRUE)[2]),
              SumCost(B \ {CHOOSE a \in B : TRUE}))

Selected(list) == {<<list[i].ei, list[i].ci>> : i \in 1..Len(list)}

IsMinimumAssignment(sel, eis, cis) ==
    /\ sel \in OneToOne(eis, cis, Min(Cardinality(eis), Cardinality(cis)))
    /\ \A B \in OneToOne(eis, cis, Min(Cardinality(eis), Cardinality(cis))) :
          RLeq(SumCost(sel), SumCost(B))

\* C28: in stage 2 of populate_excel_v4 the pairs selected for a name group
\* are a one-to-one assignment of min(#entities, #candidates) pairs between
\* the group's entities and its free candidates, of least total cost
\* (cost = -3 x identifier score + amount cost), and a selected pair becomes
\* an assignment exactly when its cost is below 500.
C28_GroupAssignmentIsMinimal ==
    /\ [][(prog = "v4" /\ pc = "stage2" /\ pc' = "assign2")
             => /\ IsMinimumAssignment(Selected(todo'), sorted_groups[grp'].ei_list,
                                       issuer_csv_map(sorted_groups[grp'].issuer) \ matched_csv)
                /\ \A i \in 1..Len(todo') : todo'[i].cost = Cost(todo'[i].ei, todo'[i].ci)]_vars
    /\ [][(prog = "v4" /\ pc = "assign2")
             => /\ matched' \ matched =
                      IF RLess(Cost(Head(todo).ei, Head(todo).ci), IntR(500))
                      THEN {<<Head(todo).ei, Head(todo).ci>>} ELSE {}
                /\ matched \subseteq matched']_vars

\* two entities and two candidates in one group, the other way of pairing
\* them costs more, and one selected pair is not below 500
C28_Witness ==
    /\ prog = "v4" /\ pc = "assign2" /\ Len(todo) = 2
    /\ RLess(SumCost(Selected(todo)),
             SumCost({<<todo[1].ei, todo[2].ci>>, <<todo[2].ei, todo[1].ci>>}))
    /\ \E i \in 1..2 : ~RLess(todo[i].cost, IntR(500))

(***************************************************************************)
(* C29                                                                     *)
(***************************************************************************)
\* the pairs that pass the floors of Phase 1 when every row is scored
\* against every candidate
QualifiesPhase1(q) ==
    /\ Len(excel_rows[q[1]].correct_cusip) >= 8
    /\ Phase1Keep(Phase1Pair(q[1], q[2], Identity(Len(csv_all))))

QualifiesBm(q) ==
    /\ excel_rows[q[1]].correct_cusip # <<>>
    /\ BmKeep(BmPair(q[1], q[2], Identity(Len(csv_all))))

PairSet(list) == {<<list[i].ei, list[i].ci>> : i \in 1..Len(list)}

\* C29: the candidate blocks of Phase 1 lose no qualifying pair: the
\* pairs that survive Phase 1 of populate_excel_v3 and the candidate pairs
\* of build_matching_v3 are the pairs that pass the floors among all
\* (row, candidate) pairs.
C29_BlockingLosesNoPair ==
    [][/\ pc = "phase1" => PairSet(todo') = {q \in AllPairs : QualifiesPhase1(q)}
       /\ (pc = "pairs" /\ prog = "bm") => PairSet(todo') = {q \in AllPairs : QualifiesBm(q)}]_vars

\* what the blocks guarantee: the surviving pairs pass the floors, and a
\* qualifying pair that is missing lies outside both blocks of its row
C29_LostPairsAreOutsideBlocks ==
    [][/\ pc = "phase1"
            => /\ PairSet(todo') \subseteq {q \in AllPairs : QualifiesPhase1(q)}
               /\ \A q \in AllPairs : (QualifiesPhase1(q) /\ q \notin PairSet(todo'))
                                          => q[2] \notin Candidates(excel_rows[q[1]])
       /\ (pc = "pairs" /\ prog = "bm")
            => /\ PairSet(todo') \subseteq {q \in AllPairs : QualifiesBm(q)}
               /\ \A q \in AllPairs : (QualifiesBm(q) /\ q \notin PairSet(todo'))
                                          => q[2] \notin Candidates(excel_rows[q[1]])]_vars

\* Phase 1 has run and a pair that passes its floors was never scored
C29_QualifyingPairNotScored ==
    /\ prog = "v3" /\ pc \notin {"load", "phase1"}
    /\ \E q \in AllPairs : QualifiesPhase1(q) /\ q \notin scored

(***************************************************************************)
(* C30                                                                     *)
(***************************************************************************)
\* s is t with some rows left out, the others in the same order
RECURSIVE IsSubsequence(_, _)
IsSubsequence(s, t) ==
    IF s = <<>> THEN TRUE
    ELSE IF t = <<>> THEN FALSE
    ELSE IF Head(s) = Head(t) THEN IsSubsequence(Tail(s), Tail(t))
    ELSE IsSubsequence(s, Tail(t))

\* the loop of smart_dedup_test.py run on a list of rows
RECURSIVE DedupRun(_, _)
DedupRun(rows, kept) ==
    IF rows = <<>> THEN kept
    ELSE DedupRun(Tail(rows), IF is_dupe(Head(rows), kept) THEN kept ELSE Append(kept, Head(rows)))

\* C30: the output of the deduplicator is a subsequence of its input in
\* the same order, and running the deduplicator again on its own output
\* removes nothing.
C30_IdempotentAndOrderPreserving ==
    (prog = "sd" /\ pc = "done")
        => /\ IsSubsequence(deduped, csv_all)
           /\ DedupRun(deduped, <<>>) = deduped

\* a run that removed rows and kept two equal rows, more than a window apart
C30_Witness ==
    /\ prog = "sd" /\ pc = "done"
    /\ Len(deduped) < Len(csv_all)
    /\ \E i, j \in 1..Len(deduped) : i + WINDOW_SIZE < j /\ deduped[i] = deduped[j]

\* a run on short input that removed a row
C30_ShortRunRemoved ==
    /\ prog = "sd" /\ pc = "done"
    /\ Len(csv_all) = MaxDedupRows /\ Len(deduped) = 2

=============================================================================
